---- MODULE Spec2Model ----
(***************************************************************************)
(* Conversation / tool-call orchestrator of jbutlerdev/genai.              *)
(*                                                                         *)
(* Part 1: retryableGeminiCall (src/gemini.go), the retry/backoff wrapper  *)
(* around one backend exchange.  Durations are in whole seconds.           *)
(* Part 2: the chat session task of each adapter (Model.chat, ollamaChat,  *)
(* OpenAIClient.Chat) together with the caller at the other end of the     *)
(* unbuffered channels Send, Recv, GenerationComplete and Done.            *)
(***************************************************************************)
EXTENDS Integers, Sequences, FiniteSets, TLC

VARIABLES
    attempt,    \* retryableGeminiCall: parameter attempt of the current call
    delay,      \* retryableGeminiCall: parameter delay (seconds)
    rpc,        \* position inside retryableGeminiCall
    rres,       \* value returned by the outermost retryableGeminiCall
    outcomes,   \* history: what the backend answered to each request of the exchange
    sleeps      \* history: argument of each time.Sleep of the exchange

rvars == <<attempt, delay, rpc, rres, outcomes, sleeps>>

VARIABLES
    provider,   \* Provider.Provider of the session ("none": no chat session)
    sysPrompt,  \* Model.SystemPrompt != ""
    pc,         \* where the session goroutine is blocked
    messages,   \* the slice `messages` of the chat loop (ollamaChat, OpenAIClient.Chat)
    fmsgs,      \* the slice `messages` of the innermost response handler of the round
    pending,    \* tool calls of the current response not yet handled (head: in progress)
    seen,       \* handleOllamaResponse: the map toolCalls of the current response
    hung,       \* the tool call in progress will never return
    outText,    \* the value being sent on chat.Recv
    recvd,      \* caller: the utterances taken from chat.Recv, in order
    sent,       \* caller: number of utterances handed over on chat.Send
    completes,  \* caller: number of values taken from chat.GenerationComplete
    runs,       \* history: the tool calls of the current response that were started
    reqs,       \* history: number of backend chat requests issued in this round
    turns,      \* Chat.Turns
    maxTurns,   \* Model.MaxTurns
    numCtx,     \* Model.Parameters[NumCtx]: [ok: it is an int, val: its value]
    forcedReqs, \* history: number of requests of this round made by handleTurns
    toolResponses, \* processToolCalls: the slice toolResponses
    toolCallIDs, \* processOpenAIMessage: the map toolCallIDs, [nil, ids]
    gstack,     \* the activations of handleGeminiResponse, innermost first: for
                \* each the request it answers and the parts still to be handled
    compacted   \* history: the transcript the last compaction of the session returned

cvars == <<recvd, sent, completes>>

ovars == <<turns, maxTurns, numCtx, forcedReqs, toolResponses, toolCallIDs>>

svars == <<provider, sysPrompt, gstack, pc, messages, fmsgs, pending, seen, hung,
           outText, runs, reqs, ovars, compacted>>

VARIABLES
    qsrc,       \* unmarshalToolCall alone: how the candidate text was made
    qres        \* unmarshalToolCall alone: what the call did with it

qvars == <<qsrc, qres>>

VARIABLES
    clientTools, \* two chats of one Provider: the field Tools of the shared OpenAIClient
    chats        \* two chats of one Provider: each chat's model and goroutine

pvars == <<clientTools, chats>>

VARIABLES
    tcall,      \* RunTool alone: the provider, the tool of the registry and the arguments
    tpc,        \* RunTool alone: where the call is
    targs,      \* RunTool alone: the arguments tool.Run was entered with
    tgens,      \* RunTool alone: number of Provider.Generate calls made
    traw,       \* RunTool alone: what the run of the tool gave
    tret,       \* RunTool alone: what RunTool returned
    tentered    \* RunTool alone: what the adapter put into the transcript for the call

tvars == <<tcall, tpc, targs, tgens, traw, tret, tentered>>

VARIABLES
    eargs,      \* executeToolCall alone: for each call of the batch, whether its arguments decode
    ecur,       \* executeToolCall alone: the call processToolCalls is at (1-based)
    epc,        \* executeToolCall alone: where the session goroutine is in that call
    eworker,    \* executeToolCall alone: for each call, where its worker goroutine is
    eresult,    \* executeToolCall alone: for each call, what its tool returned
    echan,      \* executeToolCall alone: for each call, the buffer of its resultChan
    efired,     \* executeToolCall alone: for each call, whether toolCtx is done
    etrs        \* executeToolCall alone: toolResponses, one entry per handled call

evars == <<eargs, ecur, epc, eworker, eresult, echan, efired, etrs>>

VARIABLES
    kprov,      \* example caller: the adapter the chat runs on
    kses,       \* example caller: where the session goroutine is
    krecv,      \* example caller: where the receiver goroutine is
    kmain,      \* example caller: where the main goroutine is
    krounds,    \* example caller: tool rounds of the round so far
    kparts,     \* example caller: text parts of the response still to deliver
    klog        \* example caller: the messages the receiver logged

kvars == <<kprov, kses, krecv, kmain, krounds, kparts, klog>>

xvars == <<tvars, evars, kvars>>

vars == <<rvars, svars, cvars, qvars, pvars, xvars>>

-----------------------------------------------------------------------------
(* Program constants, src/gemini.go:13-16 *)
RETRY_COUNT == 8
MAX_RETRY_DELAY == 30
BASE_DELAY == 1

(* An error text is represented by the set of status substrings it contains, *)
(* which is all strings.Contains looks at.                                   *)
ErrorTexts == { {"429"}, {"503"}, {"400"}, {"401"} }

Contains(err, code) == code \in err

(* What one backend request returns: a response (err == nil) or an error text *)
Success == [ok |-> TRUE, text |-> {}]

Failure(e) == [ok |-> FALSE, text |-> e]

Failures(errs) == { Failure(e) : e \in errs }

(* src/gemini.go:113-118 *)
min(a, b) == IF a < b THEN a ELSE b

(* src/gemini.go:37, the classification of a backend error *)
IsRetryable_Only429(err) == Contains(err, "429")

IsRetryable(err) ==
    Contains(err, "429") \/ Contains(err, "503") \/ Contains(err, "400")

(* src/gemini.go:41 *)
NextDelay_NoCap(d) == d * 2

NextDelay_NoDouble(d) == min(d + 1, MAX_RETRY_DELAY)

NextDelay(d) == min(d * 2, MAX_RETRY_DELAY)

(* src/gemini.go:26, the guard on entry *)
Exhausted_Early(a) == a >= RETRY_COUNT - 1

Exhausted(a) == a > RETRY_COUNT

-----------------------------------------------------------------------------
(* Model.generate, GEMINI case: retryableGeminiCall(input, 0, 1*time.Second) *)
RetryStart ==
    /\ attempt = 0
    /\ delay = BASE_DELAY
    /\ rpc = "entry"
    /\ rres = "none"
    /\ outcomes = <<>>
    /\ sleeps = <<>>

(* src/gemini.go:26-28: entry of (each recursive call of) retryableGeminiCall *)
RetryEnter ==
    /\ rpc = "entry"
    /\ IF Exhausted(attempt)
         THEN /\ rpc' = "done"
              /\ rres' = "exhausted"
         ELSE /\ rpc' = "request"
              /\ UNCHANGED rres
    /\ UNCHANGED <<attempt, delay, outcomes, sleeps>>

(* src/gemini.go:29-47: the backend request and the classification of its result *)
RetryRequest(errs) ==
    /\ rpc = "request"
    /\ \E o \in {Success} \cup Failures(errs) :
         /\ outcomes' = Append(outcomes, o)
         /\ IF o.ok
              THEN /\ rpc' = "done"
                   /\ rres' = "ok"
              ELSE IF IsRetryable(o.text)
                     THEN /\ rpc' = "sleep"
                          /\ UNCHANGED rres
                     ELSE /\ rpc' = "done"
                          /\ rres' = "error"
    /\ UNCHANGED <<attempt, delay, sleeps>>

(* src/gemini.go:40-42: time.Sleep(delay), the new delay and the recursive call *)
RetrySleep ==
    /\ rpc = "sleep"
    /\ sleeps' = Append(sleeps, delay)
    /\ delay' = NextDelay(delay)
    /\ attempt' = attempt + 1
    /\ rpc' = "entry"
    /\ UNCHANGED <<rres, outcomes>>

GenerateRequest == RetryRequest(ErrorTexts)

(* No chat session exists while Model.generate runs *)
NoSession ==
    /\ compacted = <<>>
    /\ provider = "none"
    /\ sysPrompt = FALSE
    /\ pc = "none"
    /\ messages = <<>>
    /\ fmsgs = <<>>
    /\ pending = <<>>
    /\ seen = {}
    /\ hung = FALSE
    /\ outText = <<>>
    /\ recvd = <<>>
    /\ sent = 0
    /\ completes = 0
    /\ runs = <<>>
    /\ reqs = 0
    /\ turns = 0
    /\ maxTurns = 0
    /\ numCtx = [ok |-> TRUE, val |-> 0]
    /\ forcedReqs = 0
    /\ gstack = <<>>
    /\ toolResponses = <<>>
    /\ toolCallIDs = [nil |-> TRUE, ids |-> <<>>]

(* unmarshalToolCall is not being run on its own *)
NoCandidate == [orig |-> <<>>, defects |-> {}, cut |-> 0]

NoResult == [state |-> "none", panic |-> FALSE, err |-> FALSE, fixed |-> <<>>]

NoQuotes ==
    /\ qsrc = NoCandidate
    /\ qres = NoResult

(* No chat has been asked of a shared Provider *)
Sessions == {1, 2}

NoChat == [pc |-> "none", Tools |-> <<>>, declared |-> <<>>]

NoChats ==
    /\ clientTools = <<>>
    /\ chats = [s \in Sessions |-> NoChat]

(* Provider.RunTool is not being run on its own *)
NoArgs == [nil |-> TRUE, m |-> [path |-> "absent", basePath |-> "absent"]]

NoValue == [kind |-> "nil", val |-> "", err |-> FALSE]

NoTool ==
    /\ tcall = [provider |-> "none", known |-> FALSE,
                tool |-> [Run |-> FALSE, Summarize |-> FALSE, Options |-> NoArgs.m],
                args |-> NoArgs]
    /\ tpc = "none"
    /\ targs = NoArgs
    /\ tgens = 0
    /\ traw = NoValue
    /\ tret = NoValue
    /\ tentered = <<>>

NoExec ==
    /\ eargs = <<>>
    /\ ecur = 0
    /\ epc = "none"
    /\ eworker = <<>>
    /\ eresult = <<>>
    /\ echan = <<>>
    /\ efired = <<>>
    /\ etrs = <<>>

NoCaller ==
    /\ kprov = "none"
    /\ kses = "none"
    /\ krecv = "none"
    /\ kmain = "none"
    /\ krounds = 0
    /\ kparts = 0
    /\ klog = <<>>

NoExtras == NoTool /\ NoExec /\ NoCaller

InitRetry == RetryStart /\ NoSession /\ NoQuotes /\ NoChats /\ NoExtras

NextRetry ==
    \/ RetryEnter /\ UNCHANGED <<svars, cvars, qvars, pvars, xvars>>
    \/ GenerateRequest /\ UNCHANGED <<svars, cvars, qvars, pvars, xvars>>
    \/ RetrySleep /\ UNCHANGED <<svars, cvars, qvars, pvars, xvars>>

SpecRetry == InitRetry /\ [][NextRetry]_vars

(* The goroutine keeps running: a sleep ends and a request returns. *)
FairSpecRetry == SpecRetry /\ WF_vars(NextRetry)

-----------------------------------------------------------------------------
(* Claims about the retry policy, checked under SpecRetry / FairSpecRetry *)

RECURSIVE Pow2(_)
Pow2(n) == IF n = 0 THEN 1 ELSE 2 * Pow2(n - 1)

(* The delay the specification prescribes before retry number i (from 0) *)
BackoffDelay(i) ==
    IF BASE_DELAY * Pow2(i) < MAX_RETRY_DELAY THEN BASE_DELAY * Pow2(i)
                                               ELSE MAX_RETRY_DELAY

(* Failure classes the specification calls transient *)
IsTransient(o) == ~o.ok /\ (Contains(o.text, "429") \/ Contains(o.text, "503"))

(* Any other failure, bad request (400) included *)
IsPermanent(o) == ~o.ok /\ ~Contains(o.text, "429") /\ ~Contains(o.text, "503")

AllTransient(h) == \A i \in 1..Len(h) : IsTransient(h[i])

(* outcomes is k transient failures followed by one success, k < maxAttempts *)
IsScriptedSuccess(h) ==
    /\ Len(h) >= 1
    /\ Len(h) - 1 < RETRY_COUNT
    /\ h[Len(h)].ok
    /\ AllTransient(SubSeq(h, 1, Len(h) - 1))

C1_State ==
    /\ \A i \in 1..Len(sleeps) : sleeps[i] = BackoffDelay(i - 1)
    /\ (rpc = "done" /\ IsScriptedSuccess(outcomes)) =>
          /\ rres = "ok"
          /\ Len(sleeps) = Len(outcomes) - 1
    /\ (AllTransient(outcomes) /\ Len(outcomes) < RETRY_COUNT) => rres = "none"

(* C1: for k < RETRY_COUNT transient failures followed by a success, the call *)
(* started with attempt 0 and delay 1s returns the success after exactly k    *)
(* sleeps, the i-th lasting min(1s * 2^i, 30s); it never gives up on a prefix *)
(* of such a script, and every call eventually returns.                       *)
C1_RetryReturnsSuccessWithBackoff == [](C1_State) /\ <>(rpc = "done")

C1_Witness ==
    /\ rpc = "done"
    /\ rres = "ok"
    /\ IsScriptedSuccess(outcomes)
    /\ Len(sleeps) = RETRY_COUNT - 1
    /\ sleeps[RETRY_COUNT - 1] = MAX_RETRY_DELAY

(* C2: a failure that is neither 429 nor 503 (400 included) ends the exchange: *)
(* it is the last request, nothing is slept after it and the call has returned *)
(* the error.                                                                  *)
C2_PermanentFailureNotRetried ==
    \A i \in 1..Len(outcomes) :
        IsPermanent(outcomes[i]) =>
            /\ i = Len(outcomes)
            /\ Len(sleeps) = i - 1
            /\ rpc = "done"
            /\ rres = "error"

(* C3: at most RETRY_COUNT backend requests are issued in one exchange *)
C3_AtMostMaxAttemptsRequests == Len(outcomes) <= RETRY_COUNT

-----------------------------------------------------------------------------
(* Part 2: data of a chat session.                                          *)
(* A text is a sequence of tokens; <<>> is the empty string.                *)

(* Bounds of the model *)
MaxSends == 2
MaxRequests == 3
MaxMaxTurns == 2

(* The errors a backend request of a chat session fails with: rate limit, *)
(* unauthorized                                                           *)
SessionErrors == { {"429"}, {"401"} }

(* part_009:142-144: the context budget NewModel sets when none is given *)
NumCtxDefault == 32768

(* ollama.Message / openai.ChatCompletionMessage *)
Msg(r, c, tcs) == [role |-> r, content |-> c, calls |-> tcs]

(* ollama.ToolCall / openai.ChatCompletionMessageToolCall *)
ToolCall(i, t, n, a) == [id |-> i, type |-> t, name |-> n, args |-> a]

(* tools.toolMap (src/tools/tool.go:33): the registered tools *)
toolMap == {"pwd"}

UserText == <<"hello">>
SystemText == <<"system prompt">>
PlainText == <<"The directory is /tmp.">>

(* Characters: a text is a sequence of tokens, each one character, or a run *)
(* of characters none of which is a quote, a backslash, ':', ',' or '}'     *)
Q == "QUOTE"
BS == "BACKSLASH"

(* Function.Arguments as text *)
EmptyArgs == <<"{", "}">>
BadArgs == <<"{", "bad">>

(* src/ollama.go:26: a match of toolCallRegex: {"name":"pwd","arguments": *)
Prefix == <<"{", Q, "name", Q, ":", Q, "pwd", Q, ",", Q, "arguments", Q, ":">>

MaxValueLen == 2
MaxCut == 2

(* The symbols of a JSON string value: a letter, a comma, an escaped quote *)
ValueSymbols == { <<"a">>, <<",">>, <<BS, Q>> }

RECURSIVE Values(_)
Values(n) ==
    IF n = 0 THEN { <<>> }
    ELSE Values(n - 1) \cup { v \o y : v \in Values(n - 1), y \in ValueSymbols }

(* The text of a tool call whose arguments are {"k":"<v>"<ws>} *)
ToolCallText(v, ws) ==
    Prefix \o <<"{", Q, "k", Q, ":", Q>> \o v \o <<Q>> \o ws \o <<"}", "}">>

(* The texts json.Unmarshal decodes into a ToolCallFunction (src/ollama.go:  *)
(* 208,211), among the texts made of Prefix, one string member and braces;   *)
(* a second member would need a value of six symbols                         *)
ValidToolCallTexts ==
    { ToolCallText(v, ws) : v \in Values(MaxValueLen), ws \in { <<>>, <<" ">> } }
    \cup { Prefix \o EmptyArgs \o <<"}">> }

JsonDecodes(c) == c \in ValidToolCallTexts

(* src/ollama.go:229 *)
approvedSecondRunes == {":", ",", "}"}

(* fixQuotes as if it escaped an inner quote without looking at the rune *)
(* before it                                                            *)
RECURSIVE fixQuotesFrom_AlwaysEscapes(_, _, _, _)
fixQuotesFrom_AlwaysEscapes(in, i, open, sb) ==
    IF i > Len(in) THEN [panic |-> FALSE, out |-> sb]
    ELSE IF in[i] # Q THEN fixQuotesFrom_AlwaysEscapes(in, i + 1, open, Append(sb, in[i]))
    ELSE IF ~open THEN fixQuotesFrom_AlwaysEscapes(in, i + 1, TRUE, Append(sb, in[i]))
    ELSE IF i + 1 > Len(in) THEN [panic |-> TRUE, out |-> sb]
    ELSE IF in[i + 1] \in approvedSecondRunes
      THEN fixQuotesFrom_AlwaysEscapes(in, i + 1, FALSE, Append(sb, in[i]))
    ELSE fixQuotesFrom_AlwaysEscapes(in, i + 1, TRUE, sb \o <<BS, Q>>)

(* src/ollama.go:227-253 fixQuotes from index i (1-based) on, with the flag  *)
(* open and the builder sb: [panic, out]; the read of in[i+1] past the end   *)
(* of the string is an index out of range                                    *)
RECURSIVE fixQuotesFrom(_, _, _, _)
fixQuotesFrom(in, i, open, sb) ==
    IF i > Len(in) THEN [panic |-> FALSE, out |-> sb]
    ELSE IF in[i] # Q THEN fixQuotesFrom(in, i + 1, open, Append(sb, in[i]))
    ELSE IF ~open THEN fixQuotesFrom(in, i + 1, TRUE, Append(sb, in[i]))
    ELSE IF i + 1 > Len(in) THEN [panic |-> TRUE, out |-> sb]
    ELSE IF in[i + 1] \in approvedSecondRunes
      THEN fixQuotesFrom(in, i + 1, FALSE, Append(sb, in[i]))
    ELSE IF in[i - 1] # BS THEN fixQuotesFrom(in, i + 1, TRUE, sb \o <<BS, Q>>)
    ELSE fixQuotesFrom(in, i + 1, TRUE, Append(sb, in[i]))

fixQuotes(in) == fixQuotesFrom(in, 1, FALSE, <<>>)

(* Texts in which the backend embedded a tool call (text-embedded adapter): *)
(* a well-formed one, one with an unescaped quote inside the string value,  *)
(* one cut right after the colon, one cut right after a closing quote       *)
EmbeddedStrict == Prefix \o EmptyArgs \o <<"}">>
EmbeddedUnescaped == Prefix \o <<"{", Q, "k", Q, ":", Q, Q, "a", Q, "}", "}">>
EmbeddedBroken == Prefix
EmbeddedOpenQuote == Prefix \o <<"{", Q, "k", Q, ":", Q, "a", Q>>

(* A JSON object with a name field and no arguments field *)
NameOnlyText == <<"{", Q, "name", Q, ":", Q, "pwd", Q, "}">>

(* The pattern as if the name field alone made a tool call *)
MatchesToolCallRegex_NameOnly(c) ==
    Len(c) >= 8 /\ SubSeq(c, 1, 8) = SubSeq(Prefix, 1, 8)

(* src/ollama.go:192-201: toolCallRegex.FindString(message.Content) != ""; *)
(* the texts of the model have the match at their start or nowhere        *)
MatchesToolCallRegex(c) ==
    Len(c) >= Len(Prefix) /\ SubSeq(c, 1, Len(Prefix)) = Prefix

(* src/ollama.go:208-210: the strict decoding fails and fixQuotes panics *)
UnmarshalPanics(c) ==
    MatchesToolCallRegex(c) /\ ~JsonDecodes(c) /\ fixQuotes(c).panic

(* src/ollama.go:208-219: the text that is decoded in the end *)
Repaired(c) == IF JsonDecodes(c) THEN c ELSE fixQuotes(c).out

(* src/ollama.go:202-219: one of the two json.Unmarshal attempts succeeds *)
DecodesAfterRepair(c) == JsonDecodes(Repaired(c))

(* src/ollama.go:220-222: the call that is added to the message *)
DecodedCall(c) ==
    ToolCall("", "function", "pwd",
             SubSeq(Repaired(c), Len(Prefix) + 1, Len(Repaired(c)) - 1))

(* src/ollama.go:191-225 unmarshalToolCall: <<message, err>> *)
unmarshalToolCall(m) ==
    IF ~MatchesToolCallRegex(m.content) THEN <<m, FALSE>>
    ELSE IF ~DecodesAfterRepair(m.content) THEN <<m, TRUE>>
    ELSE <<[m EXCEPT !.calls = Append(m.calls, DecodedCall(m.content))], FALSE>>

(* src/ollama.go:157-161,264-266: json.Marshal(toolCall.Function) writes the *)
(* name and the arguments map with its keys sorted; sha256 is taken as       *)
(* collision free.                                                           *)
MarshalFunction(tc) == <<tc.name, tc.args>>

hashToolCall(b) == <<"sha256", b>>

(* src/provider.go:122-164 Provider.RunTool for OLLAMA and OPENAI:           *)
(* <<result, err>> for a call of tool `name` whose Run ends as `how`         *)
(* ("ok" or "error"); an unknown name fails in tools.GetTool.                *)
RunToolResult(name, how) ==
    IF name \notin toolMap THEN <<"tool does not exist", TRUE>>
    ELSE IF how = "ok" THEN <<"map[path:/tmp]", FALSE>>
    ELSE <<"map[]", TRUE>>

(* How a tool.Run that returns can end *)
RunEndings(name) == IF name \in toolMap THEN {"ok", "error"} ELSE {"unknown"}

(* History entry: tool call tc was handled and ended as how; msg holds the   *)
(* tool-result message that entered the transcript for it (none: <<>>), req  *)
(* the number of the request whose response made the call.                   *)
Ran(tc, how, msg, req) == [call |-> tc, how |-> how, msg |-> msg, req |-> req]

(* src/ollama.go:173-175: the tool-result message *)
OllamaToolMessage(name, result) ==
    Msg("tool", <<"Tool", name, "returned:", result>>, <<>>)

(* src/ollama.go:147: the message that reports an undecodable tool call *)
OllamaInvalidCallMessage ==
    Msg("tool", <<"error: you provided an invalid tool call:", "failed to unmarshal tool call">>, <<>>)

(* The loop as if it never skipped a call *)
SkipSeen_Never(calls, hashes) == calls

(* src/ollama.go:156-166: the loop skips every call whose hash was seen *)
RECURSIVE SkipSeen(_, _)
SkipSeen(calls, hashes) ==
    IF calls = <<>> THEN <<>>
    ELSE IF hashToolCall(MarshalFunction(Head(calls))) \in hashes
           THEN SkipSeen(Tail(calls), hashes)
           ELSE calls

(* What the backends answer in the model.  The last request the bound      *)
(* MaxRequests leaves to a round is answered with plain text or an error. *)
PwdCall == ToolCall("", "function", "pwd", EmptyArgs)
NoSuchCall == ToolCall("", "function", "nosuch", EmptyArgs)

OllamaBatches ==
    { <<PwdCall>>, <<NoSuchCall>>, <<PwdCall, PwdCall>>, <<PwdCall, NoSuchCall>> }

OllamaResponses(n) ==
    IF n >= MaxRequests THEN { Msg("assistant", PlainText, <<>>) }
    ELSE { Msg("assistant", c, <<>>) :
             c \in {PlainText, NameOnlyText, EmbeddedStrict, EmbeddedUnescaped,
                    EmbeddedBroken, EmbeddedOpenQuote} }
         \cup { Msg("assistant", <<>>, b) : b \in OllamaBatches }

-----------------------------------------------------------------------------
(* The caller's end of the channels (src/provider.go:41-49) *)

(* SendAccepted as if the chat loop still took utterances after it returned *)
SendAccepted_AfterClose ==
    /\ pc \in {"select", "closed"}
    /\ sent < MaxSends
    /\ sent' = sent + 1
    /\ UNCHANGED <<recvd, completes>>

(* The select of the chat loop as if it also took a message while the *)
(* completion signal of the round before is still undelivered         *)
SendAccepted_DuringRound ==
    /\ pc \in {"select", "complete"}
    /\ sent < MaxSends
    /\ sent' = sent + 1
    /\ UNCHANGED <<recvd, completes>>

(* chat.Send <- msg is taken by the select of the chat loop *)
SendAccepted ==
    /\ pc = "select"
    /\ sent < MaxSends
    /\ sent' = sent + 1
    /\ UNCHANGED <<recvd, completes>>

(* <-chat.Recv *)
TakeRecv ==
    /\ pc = "recv"
    /\ recvd' = Append(recvd, outText)
    /\ UNCHANGED <<sent, completes>>

(* The completion signal as if a new round started with a fresh turn counter *)
TakeComplete_ResetsTurns ==
    /\ pc = "complete"
    /\ completes' = completes + 1
    /\ pc' = "select"
    /\ fmsgs' = <<>>
    /\ pending' = <<>>
    /\ seen' = {}
    /\ runs' = <<>>
    /\ reqs' = 0
    /\ forcedReqs' = 0
    /\ toolResponses' = <<>>
    /\ toolCallIDs' = [nil |-> TRUE, ids |-> <<>>]
    /\ UNCHANGED <<recvd, sent>>
    /\ UNCHANGED <<provider, sysPrompt, gstack, messages, hung, outText, maxTurns, numCtx>>
    /\ turns' = 0
    /\ outcomes' = <<>>
    /\ UNCHANGED <<attempt, delay, rpc, rres, sleeps>>
    /\ UNCHANGED <<qvars, pvars, xvars, compacted>>

(* <-chat.GenerationComplete: src/ollama.go:99, src/model.go:137, part_014:230 *)
TakeComplete ==
    /\ pc = "complete"
    /\ completes' = completes + 1
    /\ pc' = "select"
    /\ fmsgs' = <<>>
    /\ pending' = <<>>
    /\ seen' = {}
    /\ runs' = <<>>
    /\ reqs' = 0
    /\ forcedReqs' = 0
    /\ toolResponses' = <<>>
    /\ toolCallIDs' = [nil |-> TRUE, ids |-> <<>>]
    /\ UNCHANGED <<recvd, sent>>
    /\ UNCHANGED <<provider, sysPrompt, gstack, messages, hung, outText, turns, maxTurns, numCtx>>
    /\ outcomes' = <<>>
    /\ UNCHANGED <<attempt, delay, rpc, rres, sleeps>>
    /\ UNCHANGED <<qvars, pvars, xvars, compacted>>

(* chat.Done <- true is taken by the select: the chat loop returns *)
Close ==
    /\ pc = "select"
    /\ pc' = "closed"
    /\ UNCHANGED <<provider, sysPrompt, gstack, messages, fmsgs, pending, seen, hung, outText,
                   runs, reqs, ovars>>
    /\ UNCHANGED <<rvars, cvars>>
    /\ UNCHANGED <<qvars, pvars, xvars, compacted>>

-----------------------------------------------------------------------------
(* The text-embedded adapter: src/ollama.go *)

(* src/ollama.go:69-73 *)
OllamaInit ==
    /\ provider = "ollama"
    /\ messages = IF sysPrompt THEN <<Msg("system", SystemText, <<>>)>> ELSE <<>>

(* src/ollama.go:76-91: case msg := <-chat.Send, up to the backend request *)
OllamaSend ==
    /\ provider = "ollama"
    /\ SendAccepted
    /\ messages' = Append(messages, Msg("user", UserText, <<>>))
    /\ fmsgs' = messages'
    /\ pc' = "ollama_chat"
    /\ reqs' = 1
    /\ UNCHANGED <<provider, sysPrompt, gstack, pending, seen, hung, outText, runs, ovars>>
    /\ UNCHANGED rvars
    /\ UNCHANGED <<qvars, pvars, xvars, compacted>>

(* src/ollama.go:135-138 (and 91-94, 179-182): Ollama.Chat fails, whatever *)
(* the error; it is returned as it is                                      *)
OllamaChatFails ==
    /\ pc = "ollama_chat"
    /\ pc' = "complete"
    /\ \E e \in SessionErrors : outcomes' = Append(outcomes, Failure(e))
    /\ UNCHANGED <<provider, sysPrompt, gstack, messages, fmsgs, pending, seen, hung, outText,
                   runs, reqs, ovars>>
    /\ UNCHANGED <<attempt, delay, rpc, rres, sleeps>>
    /\ UNCHANGED cvars
    /\ UNCHANGED <<qvars, pvars, xvars, compacted>>

(* src/ollama.go:120-188: Ollama.Chat hands resp.Message to respFunc and     *)
(* returns; the response is decoded and either reported back as invalid, or  *)
(* its first tool call is started, or its text is sent on chat.Recv.         *)
OllamaChatResponds ==
    /\ pc = "ollama_chat"
    /\ \E resp \in OllamaResponses(reqs) :
         LET appended == Append(fmsgs, resp)
             decoded  == IF Len(resp.calls) < 1 THEN unmarshalToolCall(resp)
                                                ELSE <<resp, FALSE>>
             lastMessage == decoded[1]
         IN  IF Len(resp.calls) < 1 /\ UnmarshalPanics(resp.content)
               THEN /\ fmsgs' = appended
                    /\ pc' = "crashed"
                    /\ UNCHANGED <<pending, seen, outText, runs, reqs>>
             ELSE IF decoded[2]
               THEN /\ fmsgs' = Append(appended, OllamaInvalidCallMessage)
                    /\ pc' = "ollama_chat"
                    /\ reqs' = reqs + 1
                    /\ UNCHANGED <<pending, seen, outText, runs>>
             ELSE IF Len(lastMessage.calls) > 0
               THEN /\ fmsgs' = appended
                    /\ pending' = lastMessage.calls
                    /\ seen' = {hashToolCall(MarshalFunction(Head(lastMessage.calls)))}
                    /\ runs' = <<>>
                    /\ pc' = "ollama_tool"
                    /\ UNCHANGED <<outText, reqs>>
             ELSE   /\ fmsgs' = appended
                    /\ outText' = lastMessage.content
                    /\ pc' = "recv"
                    /\ UNCHANGED <<pending, seen, runs, reqs>>
    /\ UNCHANGED <<provider, sysPrompt, gstack, messages, hung, ovars>>
    /\ UNCHANGED <<rvars, cvars>>
    /\ UNCHANGED <<qvars, pvars, xvars, compacted>>

(* src/ollama.go:168-179: Provider.RunTool returns; the result message is    *)
(* appended and the loop goes on to the next call that is no duplicate, or   *)
(* to the next backend request.                                              *)
OllamaToolReturns ==
    /\ pc = "ollama_tool"
    /\ ~hung
    /\ \E how \in RunEndings(Head(pending).name) :
         LET tc   == Head(pending)
             res  == RunToolResult(tc.name, how)
             rest == SkipSeen(Tail(pending), seen)
             m    == OllamaToolMessage(tc.name, res[1])
         IN  /\ fmsgs' = Append(fmsgs, m)
             /\ runs' = Append(runs, Ran(tc, how, <<m>>, reqs))
             /\ pending' = rest
             /\ IF rest = <<>>
                  THEN /\ pc' = "ollama_chat"
                       /\ reqs' = reqs + 1
                       /\ UNCHANGED seen
                  ELSE /\ seen' = seen \cup {hashToolCall(MarshalFunction(Head(rest)))}
                       /\ UNCHANGED <<pc, reqs>>
    /\ UNCHANGED <<provider, sysPrompt, gstack, messages, hung, outText, ovars>>
    /\ UNCHANGED <<rvars, cvars>>
    /\ UNCHANGED <<qvars, pvars, xvars, compacted>>

(* src/ollama.go:168, src/gemini.go:90, part_014:320: tool.Run never returns *)
ToolNeverReturns ==
    /\ pc \in {"ollama_tool", "openai_tool", "gemini_tool"}
    /\ ~hung
    /\ Head(pending).name \in toolMap
    /\ hung' = TRUE
    /\ UNCHANGED <<provider, sysPrompt, gstack, pc, messages, fmsgs, pending, seen, outText,
                   runs, reqs, ovars>>
    /\ UNCHANGED <<rvars, cvars>>
    /\ UNCHANGED <<qvars, pvars, xvars, compacted>>

(* src/ollama.go:186-188: chat.Recv <- lastMessage.Content is taken *)
OllamaRecvTaken ==
    /\ provider = "ollama"
    /\ TakeRecv
    /\ pc' = "complete"
    /\ UNCHANGED <<provider, sysPrompt, gstack, messages, fmsgs, pending, seen, hung, outText,
                   runs, reqs, ovars>>
    /\ UNCHANGED rvars
    /\ UNCHANGED <<qvars, pvars, xvars, compacted>>

-----------------------------------------------------------------------------
(* The typed-call adapter: src/unnamed/part_014 *)

NumCtxSmall == 10

MarkerText == <<"<tool_call>", "pwd", "</tool_call>">>
SummaryText == <<"summary">>
InvalidToolCallNotice == <<"Error: Invalid tool call format detected.">>

(* part_014:470: strings.Contains(response, "<tool_call>") *)
HasToolCallMarker(c) == \E i \in 1..Len(c) : c[i] = "<tool_call>"

(* part_014:305-309: json.Unmarshal of Function.Arguments into a map succeeds *)
ArgumentsDecode(a) == a = EmptyArgs

(* part_014:235-245 *)
RECURSIVE messagesToString(_, _)
messagesToString(msgs, includeSystem) ==
    IF msgs = <<>> THEN <<>>
    ELSE LET m == Head(msgs)
             one == IF ~includeSystem /\ m.role = "system"
                      THEN <<>>
                      ELSE <<"{Role:", m.role, "content:">> \o m.content \o <<"}">>
         IN  one \o messagesToString(Tail(msgs), includeSystem)

(* tokenizer.Codec.Count: one token per word of the text *)
Count(text) == Len(text)

(* part_014:259 *)
OverBudget(msgs) == Count(messagesToString(msgs, TRUE)) > numCtx.val

(* part_014:280-289: the transcript compact returns for summary `response`; *)
(* messages[1] is read whenever messages[0] is the system message           *)
CompactPanics(msgs) == msgs = <<>> \/ (msgs[1].role = "system" /\ Len(msgs) < 2)

compact(msgs, response) ==
    <<msgs[1]>>
    \o (IF msgs[1].role = "system" THEN <<msgs[2]>> ELSE <<>>)
    \o <<Msg("user", response, <<>>)>>

(* part_014:382-387: the ids messagesToParamUnion stores for the assistant *)
(* message at (0-based) index i                                            *)
AssistantIDs(msgs, i) ==
    LET tcs  == msgs[i + 1].calls
        keys == { i + 1 + j : j \in { j \in 0..(Len(tcs) - 1) :
                      i + 1 + j < Len(msgs) /\ msgs[i + 1 + j + 1].role = "tool" } }
    IN  [k \in keys |-> tcs[k - i].id]

(* part_014:369-417: the map toolCallIDs after messagesToParamUnion *)
RECURSIVE ParamIDs(_, _, _)
ParamIDs(msgs, i, ids) ==
    IF i >= Len(msgs) THEN ids
    ELSE IF msgs[i + 1].role = "assistant" /\ Len(msgs[i + 1].calls) > 0
           THEN ParamIDs(msgs, i + 1, AssistantIDs(msgs, i) @@ ids)
           ELSE ParamIDs(msgs, i + 1, ids)

(* part_014:396-414: what messagesToParamUnion submits for the tool message *)
(* at (0-based) index i: a tool message with the id of the map, or with the *)
(* first id of the assistant message before it, or an assistant message     *)
ToolParam(msgs, i) ==
    LET ids == ParamIDs(msgs, 0, <<>>)
    IN  IF i \in DOMAIN ids THEN [kind |-> "tool", id |-> ids[i]]
        ELSE IF i > 0 /\ msgs[i].role = "assistant" /\ Len(msgs[i].calls) > 0
          THEN [kind |-> "tool", id |-> msgs[i].calls[1].id]
        ELSE [kind |-> "assistant", id |-> ""]

NilIDs == [nil |-> TRUE, ids |-> <<>>]

MadeIDs == [nil |-> FALSE, ids |-> <<>>]

(* part_014:353-357 *)
OpenAIToolMessage(resultStr) == Msg("tool", resultStr, <<>>)

(* part_014:329-334 with src/provider.go:122-164: resultStr of a call that returned *)
ResultStr(name, how) ==
    LET res == RunToolResult(name, how)
    IN  IF res[2] THEN <<>> ELSE <<res[1]>>

(* part_014:360-361: toolCallIDs[len(messages)+len(toolResponses)-1] = toolCall.ID *)
RecordID(ids, base, trs, id) ==
    [ids EXCEPT !.ids = ((base + Len(trs) - 1) :> id) @@ ids.ids]

(* part_014:344-364: the loop of processToolCalls from `calls` on, up to the *)
(* first call whose tool has to be run (pending), the end of the loop, or    *)
(* the panic of a write to the nil map.                                      *)
RECURSIVE AdvanceCalls(_, _, _, _, _, _)
AdvanceCalls(calls, base, trs, ids, log, req) ==
    IF calls = <<>>
      THEN [pending |-> <<>>, trs |-> trs, ids |-> ids, runs |-> log, crashed |-> FALSE]
    ELSE LET tc == Head(calls)
             m  == OpenAIToolMessage(<<>>)
         IN  IF tc.type # "function"
               THEN AdvanceCalls(Tail(calls), base, trs, ids, log, req)
             ELSE IF ArgumentsDecode(tc.args)
               THEN [pending |-> calls, trs |-> trs, ids |-> ids, runs |-> log,
                     crashed |-> FALSE]
             ELSE IF ids.nil
               THEN [pending |-> calls, trs |-> Append(trs, m), ids |-> ids,
                     runs |-> Append(log, Ran(tc, "bad_args", <<m>>, req)),
                     crashed |-> TRUE]
             ELSE AdvanceCalls(Tail(calls), base, Append(trs, m),
                               RecordID(ids, base, Append(trs, m), tc.id),
                               Append(log, Ran(tc, "bad_args", <<m>>, req)), req)

(* part_014:421: the turn limit is set and exceeded *)
TurnLimitExceeded(t) == maxTurns > 0 /\ t > maxTurns

(* part_014:510-550: messagesToParamUnion, handleTurns and the request that *)
(* follows: forced and without tools past the turn limit                   *)
DispatchRequest(msgs) ==
    /\ fmsgs' = msgs
    /\ turns' = turns + 1
    /\ reqs' = reqs + 1
    /\ toolCallIDs' = [nil |-> FALSE, ids |-> ParamIDs(msgs, 0, <<>>)]
    /\ IF TurnLimitExceeded(turns + 1)
         THEN /\ pc' = "openai_final"
              /\ forcedReqs' = forcedReqs + 1
         ELSE /\ pc' = "openai_chat"
              /\ UNCHANGED forcedReqs

(* handleContextLength as if a transcript that just fills the budget were *)
(* compacted too                                                         *)
handleContextLength_CompactsAtBudget(msgs) ==
    IF ~numCtx.ok THEN [kind |-> "error", msgs |-> <<>>]
    ELSE IF Count(messagesToString(msgs, TRUE)) >= numCtx.val
      THEN [kind |-> "compact", msgs |-> msgs]
    ELSE [kind |-> "same", msgs |-> msgs]

(* handleContextLength as if a context-window parameter that cannot be read *)
(* meant no limit                                                           *)
handleContextLength_IgnoresUnreadable(msgs) ==
    IF ~numCtx.ok THEN [kind |-> "same", msgs |-> msgs]
    ELSE IF Count(messagesToString(msgs, TRUE)) > numCtx.val
      THEN [kind |-> "compact", msgs |-> msgs]
    ELSE [kind |-> "same", msgs |-> msgs]

(* handleContextLength as if it never compacted *)
handleContextLength_NeverCompacts(msgs) ==
    IF ~numCtx.ok THEN [kind |-> "error", msgs |-> <<>>]
    ELSE [kind |-> "same", msgs |-> msgs]

(* part_014:249-264 handleContextLength up to the call of compact: an error, *)
(* the transcript handed to compact, or the transcript returned as it is     *)
handleContextLength(msgs) ==
    IF ~numCtx.ok THEN [kind |-> "error", msgs |-> <<>>]
    ELSE IF OverBudget(msgs) THEN [kind |-> "compact", msgs |-> msgs]
    ELSE [kind |-> "same", msgs |-> msgs]

(* part_014:496-508: processOpenAIMessage up to its first suspension *)
processOpenAIMessage(msgs) ==
    IF handleContextLength(msgs).kind = "error"
      THEN /\ pc' = "complete"
           /\ fmsgs' = msgs
           /\ toolCallIDs' = MadeIDs
           /\ UNCHANGED <<turns, reqs, forcedReqs>>
    ELSE IF handleContextLength(msgs).kind = "compact"
      THEN /\ pc' = IF CompactPanics(msgs) THEN "crashed" ELSE "openai_compact"
           /\ fmsgs' = msgs
           /\ toolCallIDs' = MadeIDs
           /\ UNCHANGED <<turns, reqs, forcedReqs>>
    ELSE DispatchRequest(handleContextLength(msgs).msgs)

(* part_014:465-492: the text of the response *)
HandleText(msgs, response) ==
    IF HasToolCallMarker(response)
      THEN processOpenAIMessage(msgs \o <<Msg("assistant", response, <<>>),
                                          Msg("user", InvalidToolCallNotice, <<>>)>>)
      ELSE /\ pc' = "recv"
           /\ outText' = response
           /\ fmsgs' = msgs
           /\ UNCHANGED <<turns, reqs, forcedReqs, toolCallIDs>>

(* The tool responses as if they were folded in last first *)
AppendToolResponses_Reversed(msgs, trs) ==
    msgs \o [k \in 1..Len(trs) |-> trs[Len(trs) + 1 - k]]

(* part_014:459: messages = append(messages, toolResponses...) *)
AppendToolResponses(msgs, trs) == msgs \o trs

(* part_014:451-463 (and 465-492): where handleResponse goes after the loop *)
(* of processToolCalls has advanced to `adv`                                *)
AfterAdvance(adv, base) ==
    /\ runs' = adv.runs
    /\ IF adv.crashed
         THEN /\ pc' = "crashed"
              /\ fmsgs' = base
              /\ pending' = adv.pending
              /\ toolResponses' = adv.trs
              /\ UNCHANGED <<outText, turns, reqs, forcedReqs, toolCallIDs>>
       ELSE IF adv.pending # <<>>
         THEN /\ pc' = "openai_tool"
              /\ fmsgs' = base
              /\ pending' = adv.pending
              /\ toolResponses' = adv.trs
              /\ toolCallIDs' = adv.ids
              /\ UNCHANGED <<outText, turns, reqs, forcedReqs>>
       ELSE IF adv.trs # <<>>
         THEN /\ processOpenAIMessage(AppendToolResponses(base, adv.trs))
              /\ pending' = <<>>
              /\ toolResponses' = <<>>
              /\ UNCHANGED outText
       ELSE   /\ HandleText(base, base[Len(base)].content)
              /\ pending' = <<>>
              /\ toolResponses' = <<>>
              /\ IF HasToolCallMarker(base[Len(base)].content)
                   THEN UNCHANGED outText ELSE TRUE

(* part_014:433-493 handleResponse(ctx, resp, m, chat, messages, toolCallIDs) *)
handleResponse(resp, msgs, ids) ==
    IF ~resp.choices
      THEN /\ pc' = "complete"
           /\ fmsgs' = msgs
           /\ UNCHANGED <<pending, toolResponses, toolCallIDs, runs, outText, turns,
                          reqs, forcedReqs>>
    ELSE IF Len(resp.calls) > 0
      THEN LET base == Append(msgs, Msg("assistant", resp.content, resp.calls))
           IN  AfterAdvance(AdvanceCalls(resp.calls, Len(base), <<>>, ids, <<>>, reqs),
                            base)
    ELSE /\ HandleText(msgs, resp.content)
         /\ IF HasToolCallMarker(resp.content) THEN UNCHANGED outText ELSE TRUE
         /\ UNCHANGED <<pending, toolResponses, runs>>

(* What the backend answers: Choices empty, or the message of Choices[0] *)
Choice(c, tcs) == [choices |-> TRUE, content |-> c, calls |-> tcs]

NoChoices == [choices |-> FALSE, content |-> <<>>, calls |-> <<>>]

OpenAIBatches ==
    { <<ToolCall("call_1", "function", "pwd", EmptyArgs)>>,
      <<ToolCall("call_1", "function", "pwd", EmptyArgs),
        ToolCall("call_2", "function", "pwd", EmptyArgs)>>,
      <<ToolCall("call_1", "function", "pwd", BadArgs)>>,
      <<ToolCall("call_1", "function", "nosuch", EmptyArgs)>>,
      <<ToolCall("call_1", "custom", "pwd", EmptyArgs)>>,
      <<ToolCall("call_1", "custom", "pwd", EmptyArgs),
        ToolCall("call_2", "function", "pwd", EmptyArgs)>> }

OpenAIResponses(n) ==
    IF n >= MaxRequests THEN { Choice(PlainText, <<>>) }
    ELSE { NoChoices, Choice(PlainText, <<>>), Choice(MarkerText, <<>>) }
         \cup { Choice(<<>>, b) : b \in OpenAIBatches }

(* part_014:205-211 *)
OpenAIInit ==
    /\ provider = "openai"
    /\ messages = IF sysPrompt THEN <<Msg("system", SystemText, <<>>)>> ELSE <<>>

(* part_014:215-223: case newMessage := <-chat.Send *)
OpenAISend ==
    /\ provider = "openai"
    /\ SendAccepted
    /\ messages' = Append(messages, Msg("user", UserText, <<>>))
    /\ processOpenAIMessage(messages')
    /\ UNCHANGED <<provider, sysPrompt, gstack, pending, seen, hung, outText, runs, maxTurns,
                   numCtx, toolResponses>>
    /\ UNCHANGED rvars
    /\ UNCHANGED <<qvars, pvars, xvars, compacted>>

(* part_014:276-279: the compaction request fails *)
OpenAICompactFails ==
    /\ pc = "openai_compact"
    /\ pc' = "complete"
    /\ UNCHANGED <<provider, sysPrompt, gstack, messages, fmsgs, pending, seen, hung, outText,
                   runs, reqs, ovars>>
    /\ UNCHANGED <<rvars, cvars>>
    /\ UNCHANGED <<qvars, pvars, xvars, compacted>>

(* part_014:276-289, 505-550: the compaction request returns the summary *)
OpenAICompactReturns ==
    /\ pc = "openai_compact"
    /\ DispatchRequest(compact(fmsgs, SummaryText))
    /\ compacted' = compact(fmsgs, SummaryText)
    /\ UNCHANGED <<provider, sysPrompt, gstack, messages, pending, seen, hung, outText, runs,
                   maxTurns, numCtx, toolResponses>>
    /\ UNCHANGED <<rvars, cvars>>
    /\ UNCHANGED <<qvars, pvars, xvars>>

(* part_014:424-427, 545-548: Chat.Completions.New fails, whatever the *)
(* error; it is wrapped and returned                                   *)
OpenAIChatFails ==
    /\ pc \in {"openai_chat", "openai_final"}
    /\ pc' = "complete"
    /\ \E e \in SessionErrors : outcomes' = Append(outcomes, Failure(e))
    /\ UNCHANGED <<provider, sysPrompt, gstack, messages, fmsgs, pending, seen, hung, outText,
                   runs, reqs, ovars>>
    /\ UNCHANGED <<attempt, delay, rpc, rres, sleeps>>
    /\ UNCHANGED cvars
    /\ UNCHANGED <<qvars, pvars, xvars, compacted>>

(* part_014:545-550: the request that declares the tools is answered *)
OpenAIChatResponds ==
    /\ pc = "openai_chat"
    /\ \E resp \in OpenAIResponses(reqs) : handleResponse(resp, fmsgs, toolCallIDs)
    /\ UNCHANGED <<provider, sysPrompt, gstack, messages, seen, hung, maxTurns, numCtx>>
    /\ UNCHANGED <<rvars, cvars>>
    /\ UNCHANGED <<qvars, pvars, xvars, compacted>>

(* part_014:424-428: the forced request is answered: handleResponse(ctx, resp, *)
(* m, chat, nil, nil)                                                          *)
OpenAIFinalResponds ==
    /\ pc = "openai_final"
    /\ \E resp \in OpenAIResponses(reqs) : handleResponse(resp, <<>>, NilIDs)
    /\ UNCHANGED <<provider, sysPrompt, gstack, messages, seen, hung, maxTurns, numCtx>>
    /\ UNCHANGED <<rvars, cvars>>
    /\ UNCHANGED <<qvars, pvars, xvars, compacted>>

(* part_014:347-364 for the call in progress, whose executeToolCall returned *)
(* resultStr and ended as how, and then the rest of the loop                 *)
OpenAICallHandled(resultStr, how) ==
    LET tc  == Head(pending)
        m   == OpenAIToolMessage(resultStr)
        trs == Append(toolResponses, m)
        log == Append(runs, Ran(tc, how, <<m>>, reqs))
    IN  IF toolCallIDs.nil
          THEN /\ pc' = "crashed"
               /\ toolResponses' = trs
               /\ runs' = log
               /\ UNCHANGED <<fmsgs, pending, outText, turns, reqs, forcedReqs,
                              toolCallIDs>>
          ELSE AfterAdvance(AdvanceCalls(Tail(pending), Len(fmsgs), trs,
                                         RecordID(toolCallIDs, Len(fmsgs), trs, tc.id),
                                         log, reqs),
                            fmsgs)

(* part_014:329-334: the worker's result arrives on resultChan *)
OpenAIToolReturns ==
    /\ pc = "openai_tool"
    /\ ~hung
    /\ \E how \in RunEndings(Head(pending).name) :
         OpenAICallHandled(ResultStr(Head(pending).name, how), how)
    /\ UNCHANGED <<provider, sysPrompt, gstack, messages, seen, hung, maxTurns, numCtx>>
    /\ UNCHANGED <<rvars, cvars>>
    /\ UNCHANGED <<qvars, pvars, xvars, compacted>>

(* part_014:326-328: toolCtx.Done() fires first, after 5 minutes *)
OpenAIToolTimesOut ==
    /\ pc = "openai_tool"
    /\ OpenAICallHandled(<<>>, "timeout")
    /\ hung' = FALSE
    /\ UNCHANGED <<provider, sysPrompt, gstack, messages, seen, maxTurns, numCtx>>
    /\ UNCHANGED <<rvars, cvars>>
    /\ UNCHANGED <<qvars, pvars, xvars, compacted>>

(* part_014:490-492: chat.Recv <- response is taken *)
OpenAIRecvTaken ==
    /\ provider = "openai"
    /\ TakeRecv
    /\ pc' = "complete"
    /\ UNCHANGED <<provider, sysPrompt, gstack, messages, fmsgs, pending, seen, hung, outText,
                   runs, reqs, ovars>>
    /\ UNCHANGED rvars
    /\ UNCHANGED <<qvars, pvars, xvars, compacted>>

-----------------------------------------------------------------------------
(* The native-session adapter: src/model.go:113-138, src/gemini.go:50-99 *)

TextPart(t) == [kind |-> "text", text |-> t, call |-> ToolCall("", "function", "", <<>>)]

CallPart(n) == [kind |-> "call", text |-> <<>>, call |-> ToolCall("", "function", n, EmptyArgs)]

BlobPart == [kind |-> "blob", text |-> <<>>, call |-> ToolCall("", "function", "", <<>>)]

GeminiResponses(n) ==
    IF n >= MaxRequests THEN { <<TextPart(PlainText)>> }
    ELSE { <<TextPart(PlainText)>>, <<CallPart("pwd")>>, <<CallPart("nosuch")>>,
           <<CallPart("pwd"), CallPart("pwd")>>, <<BlobPart>> }

Frame(req, parts) == [req |-> req, parts |-> parts]

(* src/tools/gemini.go:18-21: the FunctionResponse part, as a transcript entry *)
GeminiToolMessage(name, result) == Msg("tool", <<name, result>>, <<>>)

GeminiModelMessage(parts) ==
    Msg("assistant",
        IF parts # <<>> /\ parts[1].kind = "text" THEN parts[1].text ELSE <<>>,
        [i \in 1..Len(SelectSeq(parts, LAMBDA q : q.kind = "call")) |->
            SelectSeq(parts, LAMBDA q : q.kind = "call")[i].call])

(* src/gemini.go:52-86: activations whose loop is over (line 86) or stops at *)
(* an unexpected part (line 81) return; the caller at line 76 drops the     *)
(* value and goes on with its own loop                                      *)
RECURSIVE Unwind(_)
Unwind(st) ==
    IF st = <<>> THEN <<>>
    ELSE IF Head(st).parts = <<>> \/ Head(Head(st).parts).kind = "blob"
      THEN Unwind(Tail(st))
    ELSE st

(* GeminiContinue as if an ended round went straight back to the select *)
GeminiContinue_SkipsComplete(st) ==
    LET st1 == Unwind(st)
    IN  IF st1 = <<>>
          THEN /\ pc' = "select"
               /\ gstack' = <<>>
               /\ pending' = <<>>
               /\ UNCHANGED outText
        ELSE LET part == Head(Head(st1).parts)
                 rest == <<Frame(Head(st1).req, Tail(Head(st1).parts))>> \o Tail(st1)
             IN  /\ gstack' = rest
                 /\ IF part.kind = "text"
                      THEN /\ pc' = "recv"
                           /\ outText' = part.text
                           /\ pending' = <<>>
                      ELSE /\ pc' = "gemini_tool"
                           /\ pending' = <<part.call>>
                           /\ UNCHANGED outText

(* src/gemini.go:54-82 and src/model.go:130-137: the next part to handle *)
GeminiContinue(st) ==
    LET st1 == Unwind(st)
    IN  IF st1 = <<>>
          THEN /\ pc' = "complete"
               /\ gstack' = <<>>
               /\ pending' = <<>>
               /\ UNCHANGED outText
        ELSE LET part == Head(Head(st1).parts)
                 rest == <<Frame(Head(st1).req, Tail(Head(st1).parts))>> \o Tail(st1)
             IN  /\ gstack' = rest
                 /\ IF part.kind = "text"
                      THEN /\ pc' = "recv"
                           /\ outText' = part.text
                           /\ pending' = <<>>
                      ELSE /\ pc' = "gemini_tool"
                           /\ pending' = <<part.call>>
                           /\ UNCHANGED outText

(* src/model.go:125, src/gemini.go:72: retryableGeminiCall(input, 0, 1s) *)
GeminiCallStarts ==
    /\ rpc' = "entry"
    /\ attempt' = 0
    /\ delay' = BASE_DELAY
    /\ rres' = "none"
    /\ outcomes' = <<>>
    /\ sleeps' = <<>>

(* src/model.go:114 *)
GeminiInit ==
    /\ provider = "gemini"
    /\ messages = <<>>

(* src/model.go:117-125: case msg := <-chat.Send *)
GeminiSend ==
    /\ provider = "gemini"
    /\ SendAccepted
    /\ pc' = "gemini_call"
    /\ GeminiCallStarts
    /\ fmsgs' = <<Msg("user", UserText, <<>>)>>
    /\ reqs' = 1
    /\ UNCHANGED <<provider, sysPrompt, gstack, messages, pending, seen, hung, outText,
                   runs, ovars>>
    /\ UNCHANGED <<qvars, pvars, xvars, compacted>>

(* src/gemini.go:26-28 inside a chat exchange *)
GeminiRetryEnter ==
    /\ pc = "gemini_call"
    /\ RetryEnter
    /\ UNCHANGED <<svars, cvars>>
    /\ UNCHANGED <<qvars, pvars, xvars, compacted>>

(* src/gemini.go:29-47 inside a chat exchange: session.SendMessage *)
GeminiRetryRequest ==
    /\ pc = "gemini_call"
    /\ RetryRequest(SessionErrors)
    /\ UNCHANGED <<svars, cvars>>
    /\ UNCHANGED <<qvars, pvars, xvars, compacted>>

(* src/gemini.go:40-42 inside a chat exchange *)
GeminiRetrySleep ==
    /\ pc = "gemini_call"
    /\ RetrySleep
    /\ UNCHANGED <<svars, cvars>>
    /\ UNCHANGED <<qvars, pvars, xvars, compacted>>

(* src/model.go:125-133, src/gemini.go:72-76: retryableGeminiCall returns: an *)
(* error ends the activation that made the call (the round, for the call of  *)
(* the chat loop), a response starts a new activation of                     *)
(* handleGeminiResponse                                                      *)
GeminiCallReturns ==
    /\ pc = "gemini_call"
    /\ rpc = "done"
    /\ rpc' = "idle"
    /\ attempt' = 0
    /\ delay' = BASE_DELAY
    /\ outcomes' = <<>>
    /\ sleeps' = <<>>
    /\ UNCHANGED rres
    /\ IF rres = "ok"
         THEN \E parts \in GeminiResponses(reqs) :
                /\ fmsgs' = Append(fmsgs, GeminiModelMessage(parts))
                /\ GeminiContinue(<<Frame(reqs, parts)>> \o gstack)
         ELSE /\ GeminiContinue(Tail(<<Frame(0, <<>>)>> \o gstack))
              /\ UNCHANGED fmsgs
    /\ UNCHANGED <<provider, sysPrompt, messages, seen, hung, runs, reqs, ovars>>
    /\ UNCHANGED cvars
    /\ UNCHANGED <<qvars, pvars, xvars, compacted>>

(* src/gemini.go:58-72, 89-99: Provider.RunTool returns: a FunctionResponse  *)
(* is sent back to the session; anything else makes handleGeminiFunctionCall *)
(* return nil and the activation return nil at line 63                       *)
GeminiToolReturns ==
    /\ pc = "gemini_tool"
    /\ ~hung
    /\ \E how \in RunEndings(Head(pending).name) :
         LET tc == Head(pending)
             m  == GeminiToolMessage(tc.name, RunToolResult(tc.name, how)[1])
         IN  IF how = "ok"
               THEN /\ runs' = Append(runs, Ran(tc, how, <<m>>, Head(gstack).req))
                    /\ fmsgs' = Append(fmsgs, m)
                    /\ pc' = "gemini_call"
                    /\ GeminiCallStarts
                    /\ reqs' = reqs + 1
                    /\ pending' = <<>>
                    /\ UNCHANGED <<gstack, outText>>
               ELSE /\ runs' = Append(runs, Ran(tc, how, <<>>, Head(gstack).req))
                    /\ GeminiContinue(Tail(gstack))
                    /\ UNCHANGED <<fmsgs, reqs>>
                    /\ UNCHANGED rvars
    /\ UNCHANGED <<provider, sysPrompt, messages, seen, hung, ovars>>
    /\ UNCHANGED cvars
    /\ UNCHANGED <<qvars, pvars, xvars, compacted>>

(* src/gemini.go:79: chat.Recv <- text is taken; the loop over the parts goes on *)
GeminiRecvTaken ==
    /\ provider = "gemini"
    /\ TakeRecv
    /\ GeminiContinue(gstack)
    /\ UNCHANGED <<provider, sysPrompt, messages, fmsgs, seen, hung, runs, reqs, ovars>>
    /\ UNCHANGED rvars
    /\ UNCHANGED <<qvars, pvars, xvars, compacted>>

-----------------------------------------------------------------------------
(* Provider.Chat (src/provider.go:91-108): go model.chat(chat.ctx, chat) *)
IdleRetry ==
    /\ attempt = 0
    /\ delay = BASE_DELAY
    /\ rpc = "idle"
    /\ rres = "none"
    /\ outcomes = <<>>
    /\ sleeps = <<>>

Init ==
    /\ IdleRetry
    /\ NoQuotes
    /\ NoChats
    /\ NoExtras
    /\ compacted = <<>>
    /\ provider \in {"gemini", "ollama", "openai"}
    /\ sysPrompt \in BOOLEAN
    /\ pc = "select"
    /\ GeminiInit \/ OllamaInit \/ OpenAIInit
    /\ fmsgs = <<>>
    /\ pending = <<>>
    /\ seen = {}
    /\ hung = FALSE
    /\ outText = <<>>
    /\ recvd = <<>>
    /\ sent = 0
    /\ completes = 0
    /\ runs = <<>>
    /\ reqs = 0
    /\ turns = 0
    /\ IF provider = "openai"
         THEN /\ maxTurns \in 0..MaxMaxTurns
              /\ numCtx \in {[ok |-> FALSE, val |-> 0], [ok |-> TRUE, val |-> NumCtxSmall],
                              [ok |-> TRUE, val |-> NumCtxDefault]}
         ELSE /\ maxTurns = 0
              /\ numCtx = [ok |-> TRUE, val |-> NumCtxDefault]
    /\ forcedReqs = 0
    /\ gstack = <<>>
    /\ toolResponses = <<>>
    /\ toolCallIDs = [nil |-> TRUE, ids |-> <<>>]

Next ==
    \/ OllamaSend
    \/ OllamaChatFails
    \/ OllamaChatResponds
    \/ OllamaToolReturns
    \/ OllamaRecvTaken
    \/ GeminiSend
    \/ GeminiRetryEnter
    \/ GeminiRetryRequest
    \/ GeminiRetrySleep
    \/ GeminiCallReturns
    \/ GeminiToolReturns
    \/ GeminiRecvTaken
    \/ OpenAISend
    \/ OpenAICompactFails
    \/ OpenAICompactReturns
    \/ OpenAIChatFails
    \/ OpenAIChatResponds
    \/ OpenAIFinalResponds
    \/ OpenAIToolReturns
    \/ OpenAIToolTimesOut
    \/ OpenAIRecvTaken
    \/ ToolNeverReturns
    \/ TakeComplete
    \/ Close

Spec == Init /\ [][Next]_vars


FairSpec == Spec /\ WF_vars(Next)

-----------------------------------------------------------------------------
(* unmarshalToolCall and fixQuotes on their own (src/ollama.go:191-253) *)

(* s without the tokens at the positions in P *)
RECURSIVE DropAt(_, _, _)
DropAt(s, P, i) ==
    IF i > Len(s) THEN <<>>
    ELSE (IF i \in P THEN <<>> ELSE <<s[i]>>) \o DropAt(s, P, i + 1)

(* The candidate text: a decodable tool call in which the escapes at the    *)
(* positions `defects` are missing and whose last `cut` tokens are missing  *)
Candidate(src) ==
    LET d == DropAt(src.orig, src.defects, 1)
    IN  SubSeq(d, 1, Len(d) - src.cut)

EscapePositions(t) == { i \in 1..Len(t) : t[i] = BS }

InitQuotes ==
    /\ IdleRetry
    /\ NoSession
    /\ NoChats
    /\ NoExtras
    /\ \E t \in ValidToolCallTexts : \E P \in SUBSET EscapePositions(t) :
         \E n \in 0..MaxCut : qsrc = [orig |-> t, defects |-> P, cut |-> n]
    /\ qres = NoResult

(* src/ollama.go:192-224: the call returns the message or an error *)
UnmarshalReturns ==
    /\ qres.state = "none"
    /\ ~UnmarshalPanics(Candidate(qsrc))
    /\ qres' = [state |-> "returned", panic |-> FALSE,
                err |-> ~DecodesAfterRepair(Candidate(qsrc)),
                fixed |-> IF JsonDecodes(Candidate(qsrc)) THEN <<>>
                          ELSE fixQuotes(Candidate(qsrc)).out]
    /\ UNCHANGED <<qsrc, rvars, svars, cvars, pvars, xvars>>

(* src/ollama.go:210,237: fixQuotes reads past the end of the candidate *)
UnmarshalCrashes ==
    /\ qres.state = "none"
    /\ UnmarshalPanics(Candidate(qsrc))
    /\ qres' = [state |-> "crashed", panic |-> TRUE, err |-> FALSE,
                fixed |-> fixQuotes(Candidate(qsrc)).out]
    /\ UNCHANGED <<qsrc, rvars, svars, cvars, pvars, xvars>>

NextQuotes ==
    \/ UnmarshalReturns
    \/ UnmarshalCrashes

SpecQuotes == InitQuotes /\ [][NextQuotes]_vars

-----------------------------------------------------------------------------
(* Two chats asked of one OpenAI Provider: src/provider.go:91-108,           *)
(* src/model.go:35-53 and 141-149, part_014:525-540                          *)

MaxChatRequests == 2

(* The lists toolsToUse the callers pass to Provider.Chat *)
ToolLists == { <<"pwd">>, <<"ls">>, <<"pwd", "ls">> }

(* src/model.go:146 is being executed by another goroutine *)
Writers(s) == { o \in Sessions \ {s} : chats[o].pc = "writing" }

(* part_014:526-539: what a read of c.Tools by chat s can give: the value    *)
(* stored, or the value a concurrent unsynchronised store is putting there   *)
ToolsRead(s) == {clientTools} \cup { chats[o].Tools : o \in Writers(s) }

(* src/provider.go:91-108: NewModel takes provider.Client.OpenAI (model.go:50), *)
(* AddTool fills model.Tools (model.go:66-67), and the goroutine is started     *)
ProviderChat(s) ==
    /\ chats[s].pc = "none"
    /\ \E T \in ToolLists :
         /\ \A o \in Sessions \ {s} : chats[o].pc # "none" => chats[o].Tools # T
         /\ chats' = [chats EXCEPT ![s] = [pc |-> "spawned", Tools |-> T,
                                           declared |-> <<>>]]
    /\ UNCHANGED clientTools
    /\ UNCHANGED <<rvars, svars, cvars, qvars, xvars>>

(* src/model.go:146: m.openAIClient.Tools = m.Tools, the store begins *)
ChatStoresTools(s) ==
    /\ chats[s].pc = "spawned"
    /\ chats' = [chats EXCEPT ![s].pc = "writing"]
    /\ UNCHANGED clientTools
    /\ UNCHANGED <<rvars, svars, cvars, qvars, xvars>>

(* src/model.go:146-149: the store is done and the chat loop is at its select *)
ChatToolsStored(s) ==
    /\ chats[s].pc = "writing"
    /\ clientTools' = chats[s].Tools
    /\ chats' = [chats EXCEPT ![s].pc = "select"]
    /\ UNCHANGED <<rvars, svars, cvars, qvars, xvars>>

(* part_014:215-224: a message is taken from chat.Send *)
ChatSend(s) ==
    /\ chats[s].pc = "select"
    /\ Len(chats[s].declared) < MaxChatRequests
    /\ chats' = [chats EXCEPT ![s].pc = "dispatch"]
    /\ UNCHANGED clientTools
    /\ UNCHANGED <<rvars, svars, cvars, qvars, xvars>>

(* part_014:525-545: the request declares the tools read from c.Tools; the   *)
(* slice header read during a store can also be a torn one                   *)
ChatRequest(s) ==
    /\ chats[s].pc = "dispatch"
    /\ \/ \E T \in ToolsRead(s) :
            chats' = [chats EXCEPT ![s].pc = "chat",
                                   ![s].declared = Append(@, T)]
       \/ /\ Writers(s) # {}
          /\ chats' = [chats EXCEPT ![s].pc = "crashed"]
    /\ UNCHANGED clientTools
    /\ UNCHANGED <<rvars, svars, cvars, qvars, xvars>>

(* part_014:433-493: the response holds tool calls and another request      *)
(* follows, or it is text and the round ends                                *)
ChatResponds(s) ==
    /\ chats[s].pc = "chat"
    /\ \/ /\ Len(chats[s].declared) < MaxChatRequests
          /\ chats' = [chats EXCEPT ![s].pc = "dispatch"]
       \/ chats' = [chats EXCEPT ![s].pc = "select"]
    /\ UNCHANGED clientTools
    /\ UNCHANGED <<rvars, svars, cvars, qvars, xvars>>

InitProvider ==
    /\ IdleRetry
    /\ NoSession
    /\ NoQuotes
    /\ NoChats
    /\ NoExtras

NextProvider ==
    \/ \E s \in Sessions : ProviderChat(s)
    \/ \E s \in Sessions : ChatStoresTools(s)
    \/ \E s \in Sessions : ChatToolsStored(s)
    \/ \E s \in Sessions : ChatSend(s)
    \/ \E s \in Sessions : ChatRequest(s)
    \/ \E s \in Sessions : ChatResponds(s)

SpecProvider == InitProvider /\ [][NextProvider]_vars

-----------------------------------------------------------------------------
(* Provider.RunTool on its own (src/provider.go:122-164) and what the        *)
(* adapters put into the transcript for the call                             *)

(* A key of a map[string]any that is not set *)
Absent == "absent"

(* tool.Options of the registry entries: none, or basePath (part_005:47-50) *)
OptionMaps == { [path |-> Absent, basePath |-> Absent],
                [path |-> Absent, basePath |-> "."] }

(* The arguments the model supplies: a nil map, or a map in which it set any *)
(* of the keys, the option key included                                      *)
ModelArgs ==
    { NoArgs } \cup
    { [nil |-> FALSE, m |-> [path |-> a, basePath |-> b]] :
          a \in {Absent, "src"}, b \in {Absent, "/etc"} }

(* src/tools/tool.go:12-19: the fields of a Tool that RunTool reads *)
ToolEntries == [Run : BOOLEAN, Summarize : BOOLEAN, Options : OptionMaps]

HasOptions(tool) == tool.Options # NoArgs.m

(* The loop with the assignment the other way round: a key the model set     *)
(* keeps the model's value                                                   *)
WithOptions_ModelWins(tool, args) ==
    [nil |-> FALSE,
     m |-> [k \in DOMAIN args.m |->
              IF args.m[k] # Absent THEN args.m[k] ELSE tool.Options[k]]]

(* src/provider.go:127-129: for key, value := range tool.Options { args[key] = value } *)
WithOptions(tool, args) ==
    [nil |-> args.nil /\ ~HasOptions(tool),
     m |-> [k \in DOMAIN args.m |->
              IF tool.Options[k] # Absent THEN tool.Options[k] ELSE args.m[k]]]

(* src/provider.go:127-129: the assignment to a nil map panics *)
OptionsPanic(tool, args) == HasOptions(tool) /\ args.nil

(* src/provider.go:134-151, src/tools/gemini.go:9-22: what the switch leaves *)
(* in result and err when tool.Run ended as how                              *)
RawResult(prov, how) ==
    IF prov = "gemini"
      THEN IF how = "ok" THEN [kind |-> "FunctionResponse", val |-> "raw", err |-> FALSE]
           ELSE [kind |-> "nil", val |-> "", err |-> TRUE]
    ELSE IF how = "ok" THEN [kind |-> "map", val |-> "raw", err |-> FALSE]
    ELSE [kind |-> "map", val |-> "raw", err |-> TRUE]

(* src/provider.go:139-141, 145-147: tool.Run is nil *)
NoRunResult == [kind |-> "nil", val |-> "", err |-> TRUE]

(* src/ollama.go:168-176, part_014:347-357, src/gemini.go:58-64 and 89-99:   *)
(* what the adapter appends to the transcript for the value RunTool returned *)
(* (<<>>: nothing)                                                           *)
Entered(prov, ret) ==
    IF prov = "ollama" THEN <<ret.val>>
    ELSE IF prov = "openai" THEN IF ret.err THEN <<"">> ELSE <<ret.val>>
    ELSE IF ret.kind = "FunctionResponse" THEN <<ret.val>> ELSE <<>>

(* RunTool returns ret to the adapter *)
ToolReturn(ret) ==
    /\ tpc' = "returned"
    /\ tret' = ret
    /\ tentered' = Entered(tcall.provider, ret)

(* src/provider.go:153-163: after the switch *)
AfterRun(raw) ==
    /\ traw' = raw
    /\ IF tcall.tool.Summarize
         THEN /\ tpc' = "generate"
              /\ tgens' = tgens + 1
              /\ UNCHANGED <<tret, tentered>>
         ELSE /\ ToolReturn(raw)
              /\ UNCHANGED tgens

(* src/provider.go:122-151 up to the call of tool.Run *)
RunToolStart ==
    /\ tpc = "start"
    /\ IF ~tcall.known
         THEN /\ ToolReturn([kind |-> "string", val |-> "tool does not exist", err |-> TRUE])
              /\ UNCHANGED <<targs, tgens, traw>>
       ELSE IF OptionsPanic(tcall.tool, tcall.args)
         THEN /\ tpc' = "panicked"
              /\ UNCHANGED <<targs, tgens, traw, tret, tentered>>
       ELSE IF ~tcall.tool.Run
         THEN IF tcall.provider = "gemini"
                THEN /\ tpc' = "panicked"
                     /\ UNCHANGED <<targs, tgens, traw, tret, tentered>>
                ELSE /\ AfterRun(NoRunResult)
                     /\ UNCHANGED targs
       ELSE /\ tpc' = "running"
            /\ targs' = WithOptions(tcall.tool, tcall.args)
            /\ UNCHANGED <<tgens, traw, tret, tentered>>
    /\ UNCHANGED tcall
    /\ UNCHANGED <<rvars, svars, cvars, qvars, pvars, evars, kvars>>

(* src/provider.go:134-163: tool.Run returns *)
ToolRunReturns ==
    /\ tpc = "running"
    /\ \E how \in {"ok", "error"} : AfterRun(RawResult(tcall.provider, how))
    /\ UNCHANGED <<tcall, targs>>
    /\ UNCHANGED <<rvars, svars, cvars, qvars, pvars, evars, kvars>>

(* src/provider.go:154-162: Provider.Generate returns the summary, or fails *)
GenerateReturns ==
    /\ tpc = "generate"
    /\ \/ ToolReturn([kind |-> "string", val |-> "summary", err |-> FALSE])
       \/ ToolReturn([kind |-> "string", val |-> "", err |-> TRUE])
    /\ UNCHANGED <<tcall, targs, tgens, traw>>
    /\ UNCHANGED <<rvars, svars, cvars, qvars, pvars, evars, kvars>>

InitTool ==
    /\ IdleRetry
    /\ NoSession
    /\ NoQuotes
    /\ NoChats
    /\ NoExec
    /\ NoCaller
    /\ tcall \in [provider : {"gemini", "ollama", "openai"}, known : BOOLEAN,
                  tool : ToolEntries, args : ModelArgs]
    /\ tpc = "start"
    /\ targs = NoArgs
    /\ tgens = 0
    /\ traw = NoValue
    /\ tret = NoValue
    /\ tentered = <<>>

NextTool ==
    \/ RunToolStart
    \/ ToolRunReturns
    \/ GenerateReturns

SpecTool == InitTool /\ [][NextTool]_vars

-----------------------------------------------------------------------------
(* OpenAIClient.executeToolCall on its own, called by processToolCalls for   *)
(* each call of a batch (part_014:293-336, 344-364)                          *)

MaxBatch == 2

Batch == 1..MaxBatch

(* part_014:353-358: the tool message processToolCalls appends for a call *)
ToolResponse(i, content, why) == [call |-> i, content |-> content, why |-> why]

(* part_014:344-364: the loop goes on to the next call, or is over *)
NextCall(tr) ==
    /\ etrs' = Append(etrs, tr)
    /\ ecur' = ecur + 1
    /\ epc' = IF ecur + 1 > MaxBatch THEN "done" ELSE "start"

(* The channel as if it had no buffer: the send waits for the receive of *)
(* the select                                                           *)
ResultChanFree_Unbuffered(i) == echan[i] = <<>> /\ ecur = i /\ epc = "select"

(* part_014:316: resultChan := make(chan toolResult, 1) *)
ResultChanFree(i) == Len(echan[i]) < 1

(* part_014:293-322: executeToolCall up to its select: the arguments do not *)
(* decode, or the worker goroutine is started                               *)
ExecStart ==
    /\ epc = "start"
    /\ IF ~eargs[ecur]
         THEN /\ NextCall(ToolResponse(ecur, "", "bad_args"))
              /\ UNCHANGED eworker
         ELSE /\ epc' = "select"
              /\ eworker' = [eworker EXCEPT ![ecur] = "running"]
              /\ UNCHANGED <<ecur, etrs>>
    /\ UNCHANGED <<eargs, eresult, echan, efired>>
    /\ UNCHANGED <<rvars, svars, cvars, qvars, pvars, tvars, kvars>>

(* part_014:320: m.Provider.RunTool returns in the worker of call i *)
WorkerToolReturns(i) ==
    /\ eworker[i] = "running"
    /\ \E how \in {"ok", "error"} : eresult' = [eresult EXCEPT ![i] = how]
    /\ eworker' = [eworker EXCEPT ![i] = "sending"]
    /\ UNCHANGED <<eargs, ecur, epc, echan, efired, etrs>>
    /\ UNCHANGED <<rvars, svars, cvars, qvars, pvars, tvars, kvars>>

(* part_014:321: resultChan <- toolResult{...}, then the goroutine ends *)
WorkerHandsOver(i) ==
    /\ eworker[i] = "sending"
    /\ ResultChanFree(i)
    /\ echan' = [echan EXCEPT ![i] = Append(echan[i], eresult[i])]
    /\ eworker' = [eworker EXCEPT ![i] = "ended"]
    /\ UNCHANGED <<eargs, ecur, epc, eresult, efired, etrs>>
    /\ UNCHANGED <<rvars, svars, cvars, qvars, pvars, tvars, kvars>>

(* part_014:295: the five minutes of toolCtx are over *)
ToolCtxExpires ==
    /\ epc = "select"
    /\ ~efired[ecur]
    /\ efired' = [efired EXCEPT ![ecur] = TRUE]
    /\ UNCHANGED <<eargs, ecur, epc, eworker, eresult, echan, etrs>>
    /\ UNCHANGED <<rvars, svars, cvars, qvars, pvars, tvars, kvars>>

(* part_014:325-328: case <-toolCtx.Done() *)
SelectTimeout ==
    /\ epc = "select"
    /\ efired[ecur]
    /\ NextCall(ToolResponse(ecur, "", "timeout"))
    /\ UNCHANGED <<eargs, eworker, eresult, echan, efired>>
    /\ UNCHANGED <<rvars, svars, cvars, qvars, pvars, tvars, kvars>>

(* part_014:329-335: case res := <-resultChan *)
SelectResult ==
    /\ epc = "select"
    /\ echan[ecur] # <<>>
    /\ echan' = [echan EXCEPT ![ecur] = Tail(echan[ecur])]
    /\ IF Head(echan[ecur]) = "ok"
         THEN NextCall(ToolResponse(ecur, "result", "result"))
         ELSE NextCall(ToolResponse(ecur, "", "error"))
    /\ UNCHANGED <<eargs, eworker, eresult, efired>>
    /\ UNCHANGED <<rvars, svars, cvars, qvars, pvars, tvars, kvars>>

InitExec ==
    /\ IdleRetry
    /\ NoSession
    /\ NoQuotes
    /\ NoChats
    /\ NoTool
    /\ NoCaller
    /\ eargs \in [Batch -> BOOLEAN]
    /\ ecur = 1
    /\ epc = "start"
    /\ eworker = [i \in Batch |-> "none"]
    /\ eresult = [i \in Batch |-> "none"]
    /\ echan = [i \in Batch |-> <<>>]
    /\ efired = [i \in Batch |-> FALSE]
    /\ etrs = <<>>

NextExec ==
    \/ ExecStart
    \/ \E i \in Batch : WorkerToolReturns(i)
    \/ \E i \in Batch : WorkerHandsOver(i)
    \/ ToolCtxExpires
    \/ SelectTimeout
    \/ SelectResult

SpecExec == InitExec /\ [][NextExec]_vars

-----------------------------------------------------------------------------
(* The caller of the examples (src/examples/ollama/chat/getOpenIssues.go:    *)
(* 31-46, part_001:42-59) against the chat loop of the session               *)
(* (src/ollama.go:74-100, part_014:213-231, src/model.go:113-138); the       *)
(* channels are unbuffered (src/provider.go:94-97), so every exchange is one *)
(* step of both sides                                                        *)

MaxToolRounds == 3
MaxParts == 2

(* src/gemini.go:52-54: only a Gemini response is a list of parts *)
TextParts(p) == IF p = "gemini" THEN 1..MaxParts ELSE {1}

(* example 42 / ollama.go:76: chat.Send <- prompt meets case msg := <-chat.Send *)
MainSendsPrompt ==
    /\ kmain = "send"
    /\ kses = "select"
    /\ kmain' = "complete"
    /\ kses' = "backend"
    /\ krounds' = 0
    /\ UNCHANGED <<kprov, krecv, kparts, klog>>
    /\ UNCHANGED <<rvars, svars, cvars, qvars, pvars, tvars, evars>>

(* ollama.go:91-94, model.go:126-129, part_014:224-226: the request fails; *)
(* the error is logged and the loop goes to the completion signal          *)
SessionBackendFails ==
    /\ kses = "backend"
    /\ kses' = "complete"
    /\ UNCHANGED <<kprov, krecv, kmain, krounds, kparts, klog>>
    /\ UNCHANGED <<rvars, svars, cvars, qvars, pvars, tvars, evars>>

(* ollama.go:154-168, gemini.go:56-58, part_014:440-451: the response holds *)
(* a tool call                                                              *)
SessionRunsTool ==
    /\ kses = "backend"
    /\ krounds < MaxToolRounds
    /\ kses' = "tool"
    /\ krounds' = krounds + 1
    /\ UNCHANGED <<kprov, krecv, kmain, kparts, klog>>
    /\ UNCHANGED <<rvars, svars, cvars, qvars, pvars, tvars, evars>>

(* ollama.go:176-179, gemini.go:65-72, part_014:459-463: the tool result is *)
(* sent to the backend                                                      *)
SessionToolReturns ==
    /\ kses = "tool"
    /\ kses' = "backend"
    /\ UNCHANGED <<kprov, krecv, kmain, krounds, kparts, klog>>
    /\ UNCHANGED <<rvars, svars, cvars, qvars, pvars, tvars, evars>>

(* ollama.go:183-186, gemini.go:77-79, part_014:465-491: the response is *)
(* text; the session is at chat.Recv <- text                             *)
SessionAnswersText ==
    /\ kses = "backend"
    /\ kses' = "recv"
    /\ \E n \in TextParts(kprov) : kparts' = n
    /\ UNCHANGED <<kprov, krecv, kmain, krounds, klog>>
    /\ UNCHANGED <<rvars, svars, cvars, qvars, pvars, tvars, evars>>

(* example 35-36: for msg := range chat.Recv takes the text; the receiver *)
(* goes on to <-chat.GenerationComplete, the session to its next part or  *)
(* to chat.GenerationComplete <- true                                     *)
ReceiverTakesMessage ==
    /\ krecv = "range"
    /\ kses = "recv"
    /\ krecv' = "complete"
    /\ klog' = Append(klog, "text")
    /\ kparts' = kparts - 1
    /\ kses' = IF kparts - 1 > 0 THEN "recv" ELSE "complete"
    /\ UNCHANGED <<kprov, kmain, krounds>>
    /\ UNCHANGED <<rvars, svars, cvars, qvars, pvars, tvars, evars>>

(* example 37 / ollama.go:99: the receiver's <-chat.GenerationComplete takes *)
(* the signal of the round                                                   *)
ReceiverTakesComplete ==
    /\ krecv = "complete"
    /\ kses = "complete"
    /\ krecv' = "range"
    /\ kses' = "select"
    /\ UNCHANGED <<kprov, kmain, krounds, kparts, klog>>
    /\ UNCHANGED <<rvars, svars, cvars, qvars, pvars, tvars, evars>>

(* example 44 / ollama.go:99: main's <-chat.GenerationComplete takes the *)
(* signal of the round                                                   *)
MainTakesComplete ==
    /\ kmain = "complete"
    /\ kses = "complete"
    /\ kmain' = "done"
    /\ kses' = "select"
    /\ UNCHANGED <<kprov, krecv, krounds, kparts, klog>>
    /\ UNCHANGED <<rvars, svars, cvars, qvars, pvars, tvars, evars>>

(* example 45 / ollama.go:96-97: chat.Done <- true meets case <-chat.Done; *)
(* main returns                                                           *)
MainSendsDone ==
    /\ kmain = "done"
    /\ kses = "select"
    /\ kmain' = "exit"
    /\ kses' = "closed"
    /\ UNCHANGED <<kprov, krecv, krounds, kparts, klog>>
    /\ UNCHANGED <<rvars, svars, cvars, qvars, pvars, tvars, evars>>

InitCaller ==
    /\ IdleRetry
    /\ NoSession
    /\ NoQuotes
    /\ NoChats
    /\ NoTool
    /\ NoExec
    /\ kprov \in {"gemini", "ollama", "openai"}
    /\ kses = "select"
    /\ krecv = "range"
    /\ kmain = "send"
    /\ krounds = 0
    /\ kparts = 0
    /\ klog = <<>>

NextCaller ==
    \/ MainSendsPrompt
    \/ SessionBackendFails
    \/ SessionRunsTool
    \/ SessionToolReturns
    \/ SessionAnswersText
    \/ ReceiverTakesMessage
    \/ ReceiverTakesComplete
    \/ MainTakesComplete
    \/ MainSendsDone

SpecCaller == InitCaller /\ [][NextCaller]_vars

-----------------------------------------------------------------------------
(* Properties of a chat round *)

ToolStates == {"ollama_tool", "openai_tool", "gemini_tool"}

(* tool.Run was entered for the call of history entry r *)
RunInvoked(r) == r.how \in {"ok", "error", "timeout"}

Roles(ms) == [i \in 1..Len(ms) |-> ms[i].role]

(* C4: within the batch of tool calls of one response, on every adapter, a   *)
(* call with the same name and the same canonical arguments as an earlier    *)
(* call of the batch does not run the tool again.                            *)
C4_DuplicateCallNotRunTwice ==
    \A i \in 1..Len(runs) : \A j \in 1..Len(runs) :
        (i < j /\ runs[i].req = runs[j].req
               /\ MarshalFunction(runs[i].call) = MarshalFunction(runs[j].call))
        => ~(RunInvoked(runs[i]) /\ RunInvoked(runs[j]))

(* C5: every tool call that was handled, whatever its outcome, has added     *)
(* exactly one tool-result message, and when the round delivers its text or  *)
(* is over (compaction not being in play) a backend request was issued after *)
(* the one that made the call.                                               *)
C5_EveryCallAddsOneResult ==
    \A i \in 1..Len(runs) :
        /\ Len(runs[i].msg) = 1
        /\ (pc \in {"recv", "complete"} /\ numCtx.val = NumCtxDefault)
              => reqs > runs[i].req

(* C6: the tool-result message of a call that failed (unknown tool, bad      *)
(* arguments, execution error, timeout) has a non-empty content.             *)
C6_FailedCallResultNotEmpty ==
    \A i \in 1..Len(runs) :
        (runs[i].how # "ok" /\ runs[i].msg # <<>>) => runs[i].msg[1].content # <<>>

(* C7: a round whose tool call never returns is never stuck, on any adapter: *)
(* some step (the timeout) is still possible.                                *)
C7_HungCallStillTerminates == (pc \in ToolStates /\ hung) => ENABLED Next

(* C8: with maxTurns = N > 0 a round makes at most N requests that declare   *)
(* the tools and exactly one forced request without tools.                   *)
C8_TurnLimitOneForcedRequest ==
    maxTurns > 0 => (reqs - forcedReqs <= maxTurns /\ forcedReqs <= 1)

(* Scenario A has run: one utterance, a first response with the single call  *)
(* pwd that succeeds, a second response with plain text, the text taken.     *)
ScenarioA ==
    /\ pc = "complete"
    /\ sent = 1
    /\ ~sysPrompt
    /\ numCtx = [ok |-> TRUE, val |-> NumCtxDefault]
    /\ reqs = 2
    /\ forcedReqs = 0
    /\ Len(runs) = 1
    /\ runs[1].how = "ok"
    /\ runs[1].req = 1
    /\ recvd # <<>>

(* C9: after Scenario A the caller has received exactly the text T, once,    *)
(* and the transcript of the session is: user, assistant with the call,      *)
(* tool result, assistant text.                                              *)
C9_ScenarioATranscript ==
    ScenarioA =>
        /\ recvd = <<PlainText>>
        /\ \/ Roles(messages) = <<"user", "assistant", "tool", "assistant">>
           \/ Roles(fmsgs) = <<"user", "assistant", "tool", "assistant">>

(* C10: GenerationComplete has been taken exactly once for every accepted    *)
(* Send whose round is over, not yet for the Send whose round is under way,  *)
(* and never without a Send before it.                                       *)
C10_CompleteOncePerSend ==
    /\ completes <= sent
    /\ pc \in {"select", "closed"} => completes = sent
    /\ pc \notin {"select", "closed"} => completes = sent - 1

(* a round that ended with retry exhaustion, and no text, has completed *)
C10_Witness ==
    /\ pc = "select"
    /\ sent = 1
    /\ completes = 1
    /\ recvd = <<>>
    /\ rres = "exhausted"


-----------------------------------------------------------------------------
(* Properties of Close *)

(* C11: wherever the session task is suspended, a send on Done can be taken  *)
(* at once: the step Close is enabled in every state in which the session    *)
(* task is alive.                                                            *)
C11_CloseObservedAtEverySuspension ==
    pc \notin {"closed", "crashed"} => ENABLED Close

(* C12: Closed is terminal: no step of the session or of its caller's        *)
(* channels starts in a state where the chat loop has taken Done; so no      *)
(* request, tool run, utterance, completion or accepted Send follows.        *)
C12_ClosedIsTerminal == [][pc # "closed"]_vars

(* the chat loop has taken Done after a whole round *)
C12_Witness ==
    /\ pc = "closed"
    /\ sent = 1
    /\ completes = 1
    /\ recvd # <<>>


-----------------------------------------------------------------------------
(* Properties of backend failures *)

(* The first backend exchange of the first round failed for good (permanent  *)
(* error or retries exhausted) and the round is over: its completion signal  *)
(* is the next thing the caller gets.                                        *)
FirstRoundFailed ==
    /\ pc = "complete"
    /\ sent = 1
    /\ reqs = 1
    /\ rres \in {"error", "exhausted"}

(* C13: a round ended by a permanent backend failure or by retry exhaustion  *)
(* is surfaced to the caller: the caller has been handed something for that  *)
(* round on the only channel that carries data to it (Recv) before the       *)
(* completion signal, which tells it apart from a round with no utterance.   *)
C13_BackendFailureSurfaced == FirstRoundFailed => recvd # <<>>


(* C14: on every adapter a transient (rate-limit) failure of a backend       *)
(* request ends a round only after retry exhaustion: a round that is over    *)
(* and whose last backend answer was a transient failure has seen more than  *)
(* RETRY_COUNT - 1 such answers (so three of them never end it).             *)
C14_TransientFailureEndsRoundOnlyAfterExhaustion ==
    (pc = "complete" /\ outcomes # <<>> /\ IsTransient(outcomes[Len(outcomes)]))
        => Len(outcomes) >= RETRY_COUNT


-----------------------------------------------------------------------------
(* Properties of tool calls embedded in text *)

(* The text matches the opening pattern and is decoded neither as it is nor  *)
(* after quote repair                                                        *)
Undecodable(c) ==
    /\ MatchesToolCallRegex(c)
    /\ ~JsonDecodes(c)
    /\ (fixQuotes(c).panic \/ ~JsonDecodes(fixQuotes(c).out))

(* C15: on the text-embedded adapter every response whose text is an         *)
(* undecodable tool call is followed in the transcript by one tool-role      *)
(* error message, is never delivered on Recv, and leaves the session task    *)
(* running so that a new backend request is made.                            *)
C15_UndecodableCallReportedToBackend ==
    provider = "ollama" =>
        /\ \A i \in 1..Len(fmsgs) :
              (fmsgs[i].role = "assistant" /\ fmsgs[i].calls = <<>>
                  /\ Undecodable(fmsgs[i].content))
              => /\ i < Len(fmsgs)
                 /\ fmsgs[i + 1] = OllamaInvalidCallMessage
                 /\ pc # "crashed"
        /\ \A j \in 1..Len(recvd) : ~Undecodable(recvd[j])


(* C16: for every candidate text tool-call extraction and quote repair end   *)
(* with a message or an error value: no run of unmarshalToolCall ends in a   *)
(* read outside the candidate string.                                        *)
C16_QuoteRepairNeverCrashes == qres.state # "none" => ~qres.panic

(* The only defects of the candidate are unescaped quotes inside the string  *)
(* value, none of them immediately followed by ':', ',' or '}'               *)
OnlyQuoteDefects(src) ==
    /\ src.cut = 0
    /\ src.defects # {}
    /\ \A i \in src.defects :
         (IF i + 2 \in src.defects THEN Q ELSE src.orig[i + 2]) \notin approvedSecondRunes

(* C17: for such a candidate fixQuotes returns the candidate with a          *)
(* backslash put back before each of those quotes and nothing else changed,  *)
(* which is the decodable text the candidate was made from.                  *)
C17_QuoteRepairRestoresEscapes ==
    (qres.state # "none" /\ OnlyQuoteDefects(qsrc))
        => (~qres.panic /\ qres.fixed = qsrc.orig)


-----------------------------------------------------------------------------
(* Properties of context compaction *)

(* C18: on a transcript within the budget handleContextLength returns the    *)
(* transcript as it is, and so does a second run on what the first returned; *)
(* a compaction request is in flight only for a transcript over the budget.  *)
C18_CompactionNoOpWithinBudget ==
    (provider = "openai" /\ numCtx.ok) =>
        /\ ~OverBudget(fmsgs) =>
              /\ handleContextLength(fmsgs) = [kind |-> "same", msgs |-> fmsgs]
              /\ handleContextLength(handleContextLength(fmsgs).msgs).msgs = fmsgs
        /\ pc = "openai_compact" => OverBudget(fmsgs)

(* a request went out with a transcript that just fills a small budget *)
C18_Witness ==
    /\ provider = "openai"
    /\ pc = "openai_chat"
    /\ numCtx = [ok |-> TRUE, val |-> NumCtxSmall]
    /\ sysPrompt
    /\ fmsgs = messages
    /\ ~OverBudget(fmsgs)


(* The first message of ms with the given role, if there is one *)
FirstWithRole(ms, role) ==
    LET sel == SelectSeq(ms, LAMBDA m : m.role = role)
    IN  IF sel = <<>> THEN <<>> ELSE <<sel[1]>>

(* C19: when compaction is done on a transcript, the transcript that         *)
(* replaces it is exactly: its system message if it has one, its first user  *)
(* message if it has one, and one user message with the summary; and the     *)
(* step never crashes for a transcript that is too short.                    *)
C19_CompactionShape ==
    [][(pc = "openai_compact" /\ pc' # "complete")
         => /\ pc' # "crashed"
            /\ fmsgs' = FirstWithRole(fmsgs, "system") \o FirstWithRole(fmsgs, "user")
                        \o <<Msg("user", SummaryText, <<>>)>>]_vars


(* ------------------------------------------------------------------------ *)
(* Properties of the transcript across rounds                                *)
(* ------------------------------------------------------------------------ *)

(* The first backend request of the second round is in flight, the first     *)
(* round handed an assistant utterance to the caller, and no compaction can  *)
(* have happened (Ollama has none; on OpenAI the budget is the default one). *)
SecondRoundFirstRequest ==
    /\ pc \in {"ollama_chat", "openai_chat"}
    /\ sent = 2
    /\ completes = 1
    /\ reqs = 1
    /\ recvd # <<>>
    /\ provider = "openai" => numCtx = [ok |-> TRUE, val |-> NumCtxDefault]

(* C20: absent compaction, the transcript submitted on a backend request     *)
(* holds every message produced so far in the session, those of earlier      *)
(* Sends included: the transcript of the first request of the second round   *)
(* holds the assistant response of the first round that the caller received. *)
C20_TranscriptHoldsEarlierRounds ==
    SecondRoundFirstRequest =>
        \E i \in 1..Len(fmsgs) :
            fmsgs[i].role = "assistant" /\ fmsgs[i].content = recvd[1]


(* ------------------------------------------------------------------------ *)
(* Properties of the typed-call adapter                                      *)
(* ------------------------------------------------------------------------ *)

(* The calls executed for the response of the request before the one in      *)
(* flight, in the order of their execution                                   *)
LastBatch == SelectSeq(runs, LAMBDA e : e.req = reqs - 1)

(* C21: on the typed-call adapter every tool message submitted to the        *)
(* backend carries the id of the tool call whose execution produced it: in   *)
(* the request that follows a tool batch, the k-th of the trailing tool      *)
(* messages is submitted as a tool message with the id of the k-th call run. *)
C21_ToolMessageCarriesItsCallID ==
    (/\ provider = "openai"
     /\ pc \in {"openai_chat", "openai_final"}
     /\ numCtx = [ok |-> TRUE, val |-> NumCtxDefault]
     /\ LastBatch # <<>>)
    => \A k \in 1..Len(LastBatch) :
          LET i == Len(fmsgs) - Len(LastBatch) + k - 1
          IN  /\ fmsgs[i + 1] = LastBatch[k].msg[1]
              /\ ToolParam(fmsgs, i) = [kind |-> "tool", id |-> LastBatch[k].call.id]


(* ------------------------------------------------------------------------ *)
(* Properties of the rounds of one session                                   *)
(* ------------------------------------------------------------------------ *)

(* C22: the rounds of a session are strictly sequential: at most one Send is *)
(* accepted and not yet completed; a Send can be accepted only when every    *)
(* accepted Send has had its completion signal delivered; and outside a      *)
(* round no backend request is in flight and no tool call is in progress.    *)
C22_RoundsAreSequential ==
    /\ sent \in {completes, completes + 1}
    /\ (ENABLED SendAccepted) => sent = completes
    /\ sent = completes => (reqs = 0 /\ runs = <<>> /\ pending = <<>>
                            /\ pc \in {"select", "closed"})

(* The second round has a backend request in flight after the first round    *)
(* was completed                                                             *)
C22_Witness ==
    /\ sent = 2
    /\ completes = 1
    /\ reqs >= 1
    /\ pc \in {"ollama_chat", "openai_chat", "gemini_call"}


(* ------------------------------------------------------------------------ *)
(* Properties of two chats of one Provider                                   *)
(* ------------------------------------------------------------------------ *)

(* C23: two chats created from the same Provider with different tool lists   *)
(* do not interfere: every backend request of a chat declares exactly the    *)
(* tools that were passed to the Chat call that created it.                  *)
C23_RequestsDeclareOwnTools ==
    \A s \in Sessions : \A k \in 1..Len(chats[s].declared) :
        chats[s].declared[k] = chats[s].Tools


(* ------------------------------------------------------------------------ *)
(* Properties of the turn limit                                              *)
(* ------------------------------------------------------------------------ *)

(* C24: the forced response past the turn limit is final: whatever answers   *)
(* the forced request, the round goes on to deliver its text or to end, no   *)
(* tool is started, no further backend request is made, and the session      *)
(* does not crash.                                                           *)
C24_ForcedResponseIsFinal ==
    [][pc = "openai_final"
         => /\ pc' \in {"recv", "complete"}
            /\ pending' = <<>>
            /\ reqs' = reqs]_vars


FollowingTools(ms, a) ==
    Cardinality({ n \in 1..(Len(ms) - a) : \A k \in 1..n : ms[a + k].role = "tool" })

(* The hashes of the calls of one response *)
CallHashes(tcs) == { hashToolCall(MarshalFunction(tcs[i])) : i \in 1..Len(tcs) }

(* C26: on the text-embedded adapter duplicate suppression is scoped to one  *)
(* response and is silent: while a batch is being handled the seen hashes    *)
(* are exactly those of the calls of this response handled so far (nothing   *)
(* of an earlier response), and once its batch is over every response with   *)
(* calls is followed by one tool message per distinct call, a duplicate      *)
(* adding none and ending nothing.                                           *)
C26_DuplicateSuppressionPerResponse ==
    provider = "ollama" =>
        /\ pc = "ollama_tool" =>
              seen = CallHashes([i \in 1..Len(runs) |-> runs[i].call])
                     \cup {hashToolCall(MarshalFunction(Head(pending)))}
        /\ pc \in {"ollama_chat", "recv", "complete"} =>
              \A a \in 1..Len(fmsgs) :
                  (fmsgs[a].role = "assistant" /\ Len(fmsgs[a].calls) > 0) =>
                      FollowingTools(fmsgs, a) = Cardinality(CallHashes(fmsgs[a].calls))

(* A response with the call pwd twice got one result, and the same call in   *)
(* the next response of the round was run again                              *)
C26_Witness ==
    /\ provider = "ollama"
    /\ pc = "ollama_chat"
    /\ reqs = 3
    /\ Roles(fmsgs) = <<"user", "assistant", "tool", "assistant", "tool">>
    /\ fmsgs[2].calls = <<PwdCall, PwdCall>>
    /\ fmsgs[4].calls = <<PwdCall>>
    /\ fmsgs[5] = OllamaToolMessage("pwd", RunToolResult("pwd", "ok")[1])


(* The calls of a response that the adapter at hand runs, in the order of    *)
(* the response: the first of each group of identical calls on the           *)
(* text-embedded adapter, the calls of type function on the typed-call one   *)
RECURSIVE FirstOccurrences(_, _)
FirstOccurrences(tcs, hashes) ==
    IF tcs = <<>> THEN <<>>
    ELSE LET h == hashToolCall(MarshalFunction(Head(tcs)))
         IN  IF h \in hashes THEN FirstOccurrences(Tail(tcs), hashes)
             ELSE <<Head(tcs)>> \o FirstOccurrences(Tail(tcs), hashes \cup {h})

HandledCalls(tcs) ==
    IF provider = "ollama" THEN FirstOccurrences(tcs, {})
    ELSE SelectSeq(tcs, LAMBDA t : t.type = "function")

(* The calls a response makes: its typed calls, or on the text-embedded      *)
(* adapter the call decoded from its text                                    *)
ResponseCalls(m) ==
    IF Len(m.calls) > 0 \/ provider # "ollama" THEN m.calls
    ELSE unmarshalToolCall(m)[1].calls

(* C27: when the request that follows a tool batch is issued, the transcript *)
(* ends with the assistant message that made the calls directly followed by  *)
(* the tool-result messages of the calls that were run, in the order of the  *)
(* calls in the response, with nothing in between.                           *)
C27_ToolResultsFollowInCallOrder ==
    (/\ pc \in {"ollama_chat", "openai_chat", "openai_final"}
     /\ numCtx = [ok |-> TRUE, val |-> NumCtxDefault]
     /\ LastBatch # <<>>)
    => LET n == Len(LastBatch)
           a == Len(fmsgs) - n
       IN  /\ a >= 1
           /\ fmsgs[a].role = "assistant"
           /\ [k \in 1..n |-> LastBatch[k].call] = HandledCalls(ResponseCalls(fmsgs[a]))
           /\ \A k \in 1..n : fmsgs[a + k] = LastBatch[k].msg[1]

(* A response with two calls whose results differ: the first returned, the   *)
(* second failed, and the next request is in flight                          *)
C27_Witness ==
    /\ provider = "openai"
    /\ pc = "openai_chat"
    /\ numCtx = [ok |-> TRUE, val |-> NumCtxDefault]
    /\ Len(LastBatch) = 2
    /\ LastBatch[1].how = "ok"
    /\ LastBatch[2].how = "error"
    /\ Roles(fmsgs) = <<"user", "assistant", "tool", "tool">>
    /\ fmsgs[3] # fmsgs[4]


(* ------------------------------------------------------------------------ *)
(* Properties of compaction within a pass                                    *)
(* ------------------------------------------------------------------------ *)

(* C28: in each pass compaction is invoked if and only if the estimated      *)
(* token count of the whole transcript strictly exceeds the budget: a pass   *)
(* enters compaction only with a transcript over budget, and then before     *)
(* the turn counter moves and before any chat request; a pass that issues    *)
(* its request without compaction does so with a transcript within budget;  *)
(* and a compaction is followed by the request of the same pass (turn        *)
(* counter plus one), never by a second compaction.                          *)
C28_CompactionIffOverBudgetOncePerPass ==
    [][(provider = "openai" /\ numCtx.ok)
         => /\ (pc # "openai_compact" /\ pc' = "openai_compact")
                  => (OverBudget(fmsgs') /\ turns' = turns /\ reqs' = reqs)
            /\ (pc # "openai_compact" /\ reqs' = reqs + 1) => ~OverBudget(fmsgs')
            /\ pc = "openai_compact"
                  => \/ pc' = "complete" /\ turns' = turns /\ reqs' = reqs
                     \/ /\ pc' \in {"openai_chat", "openai_final"}
                        /\ turns' = turns + 1
                        /\ reqs' = reqs + 1]_vars

(* A pass compacted the transcript and its request is in flight *)
C28_Witness ==
    /\ provider = "openai"
    /\ pc \in {"openai_chat", "openai_final"}
    /\ numCtx = [ok |-> TRUE, val |-> NumCtxSmall]
    /\ fmsgs # <<>>
    /\ fmsgs[Len(fmsgs)] = Msg("user", SummaryText, <<>>)


(* C29: a compaction replaces the transcript of the session for good: every  *)
(* backend chat request issued after a compaction, those of later Sends      *)
(* included, submits the transcript the last compaction returned followed    *)
(* by the messages added since.                                              *)
C29_CompactionIsDurable ==
    (/\ provider = "openai"
     /\ pc \in {"openai_chat", "openai_final"}
     /\ compacted # <<>>)
    => /\ Len(fmsgs) >= Len(compacted)
       /\ SubSeq(fmsgs, 1, Len(compacted)) = compacted


(* ------------------------------------------------------------------------ *)
(* Properties of a response without a tool call                              *)
(* ------------------------------------------------------------------------ *)

(* The text holds, somewhere, the opening of a JSON object with a name field *)
(* followed by an arguments field                                            *)
HasOpeningPattern(c) ==
    \E i \in 1..Len(c) :
        /\ i + Len(Prefix) - 1 <= Len(c)
        /\ SubSeq(c, i, i + Len(Prefix) - 1) = Prefix

(* C30: on the text-embedded adapter a response whose text has no tool-call  *)
(* opening pattern (and no typed call) comes back from unmarshalToolCall as  *)
(* it went in, with no error and no call, and its text is what is put on     *)
(* Recv: no tool is started and no further request is made for it.           *)
C30_PlainTextDeliveredVerbatim ==
    [][(/\ provider = "ollama"
        /\ pc = "ollama_chat"
        /\ Len(fmsgs') > Len(fmsgs)
        /\ fmsgs'[Len(fmsgs) + 1].calls = <<>>
        /\ ~HasOpeningPattern(fmsgs'[Len(fmsgs) + 1].content))
       => LET resp == fmsgs'[Len(fmsgs) + 1]
          IN  /\ unmarshalToolCall(resp) = <<resp, FALSE>>
              /\ fmsgs' = Append(fmsgs, resp)
              /\ pc' = "recv"
              /\ outText' = resp.content
              /\ reqs' = reqs /\ pending' = pending /\ runs' = runs]_vars

(* The caller has received, as it was, a text that is a JSON object with a   *)
(* name field but without the arguments field of the pattern                 *)
C30_Witness ==
    /\ provider = "ollama"
    /\ pc = "complete"
    /\ reqs = 1
    /\ recvd = <<NameOnlyText>>
    /\ fmsgs[Len(fmsgs)] = Msg("assistant", NameOnlyText, <<>>)


(* ------------------------------------------------------------------------ *)
(* Properties of Provider.RunTool                                            *)
(* ------------------------------------------------------------------------ *)

(* C31: when RunTool has returned for a registered tool that was run: with   *)
(* the Summarize flag exactly one side-channel generation request was made   *)
(* and what entered the transcript is the output of that request (never the  *)
(* raw output of the tool); without the flag no such request was made and    *)
(* the raw result and error were returned as they were.                      *)
C31_SummarizeReplacesRawOutput ==
    (tpc = "returned" /\ tcall.known /\ tcall.tool.Run) =>
        IF tcall.tool.Summarize
          THEN /\ tgens = 1
               /\ tentered = <<tret.val>>
               /\ tret.kind = "string"
          ELSE /\ tgens = 0
               /\ tret = traw

(* C37: whenever RunTool has invoked the tool, every key configured in the   *)
(* tool's Options has reached the tool with the configured value, whatever   *)
(* the model supplied for that key; so two invocations that differ only in   *)
(* what the model supplied for option keys hand the tool the same values for *)
(* those keys.                                                               *)
C37_OptionsOverrideModelArgs ==
    (tpc \in {"running", "generate", "returned"} /\ tcall.known /\ tcall.tool.Run) =>
        \A k \in DOMAIN tcall.tool.Options :
            tcall.tool.Options[k] # Absent => targs.m[k] = tcall.tool.Options[k]

(* The tool runs with basePath "." configured although the model supplied    *)
(* "/etc" for that key                                                       *)
C37_Witness ==
    /\ tpc = "running"
    /\ tcall.tool.Options.basePath = "."
    /\ ~tcall.args.nil
    /\ tcall.args.m.basePath = "/etc"
    /\ targs.m.basePath = "."

(* ------------------------------------------------------------------------ *)
(* Properties of the session task towards its caller                         *)
(* ------------------------------------------------------------------------ *)

(* The last response of the Gemini backend held a part that is neither text  *)
(* nor a function call, and nothing was added to the exchange since          *)
UnexpectedPartHandled ==
    /\ provider = "gemini"
    /\ fmsgs # <<>>
    /\ fmsgs[Len(fmsgs)] = GeminiModelMessage(<<BlobPart>>)

(* C32: a response part that is neither text nor a function call ends the    *)
(* handling of that response without a panic: the session task is alive, at  *)
(* the completion signal of the round (which the caller can take, after      *)
(* which the next Send is accepted) or, when the response answered a tool    *)
(* result, possibly at the next part of the response before; nothing of the  *)
(* part is delivered on Recv.                                                *)
C32_UnexpectedPartIsAnError ==
    UnexpectedPartHandled =>
        /\ pc \in {"complete", "gemini_tool"}
        /\ pc = "gemini_tool" => gstack # <<>> /\ reqs > 1
        /\ pc = "complete" => ENABLED (TakeComplete /\ pc' = "select")
        /\ completes < sent

C32_Witness ==
    /\ UnexpectedPartHandled
    /\ pc = "complete"
    /\ reqs = 1

(* Where the session task waits for a backend round trip, and for a tool *)
BackendWaits == {"ollama_chat", "gemini_call", "openai_chat", "openai_compact", "openai_final"}

ToolWaits == {"ollama_tool", "gemini_tool", "openai_tool"}

(* C33: the session task is suspended only waiting for the next Send, for a  *)
(* backend round trip or for a tool call (or it has ended); it is never      *)
(* suspended until the caller takes an utterance from Recv or takes the      *)
(* completion signal.                                                        *)
C33_SuspendsOnlyAtThreePoints ==
    pc \in {"select", "closed", "crashed"} \cup BackendWaits \cup ToolWaits

(* C34: an utterance is handed over on Recv only inside the round it belongs *)
(* to: when the session offers or delivers it, every earlier round has fired *)
(* its completion signal and the round of the utterance has not; so every    *)
(* utterance of a round reaches the caller before that round's completion    *)
(* signal and none after it.                                                 *)
C34_UtterancesBeforeCompletion ==
    /\ pc = "recv" => completes + 1 = sent
    /\ pc = "complete" => completes + 1 = sent
    /\ pc = "select" => completes = sent

C34_Witness ==
    /\ pc = "complete"
    /\ sent = 2
    /\ completes = 1
    /\ Len(recvd) = 2

(* What the end of a pass with an error leaves behind: no request, no turn,  *)
(* nothing delivered, the session at the completion signal of the round      *)
PassEndsWithError ==
    /\ pc' = "complete"
    /\ turns' = turns
    /\ reqs' = reqs
    /\ recvd' = recvd
    /\ completes' = completes

(* C36: a pass whose compaction request fails, or that cannot read the       *)
(* context-window parameter, ends before any chat request is submitted: the  *)
(* turn counter and the request count stay as they were, nothing is          *)
(* delivered on Recv and the session is at the round's completion signal,    *)
(* which the caller can take.                                                *)
C36_FailedCompactionEndsThePass ==
    /\ pc = "openai_compact" =>
         /\ ENABLED OpenAICompactFails
         /\ ~ ENABLED (OpenAICompactFails /\ ~PassEndsWithError)
    /\ (provider = "openai" /\ ~numCtx.ok) =>
         /\ pc \in {"select", "complete", "closed"}
         /\ turns = 0 /\ reqs = 0 /\ recvd = <<>>
         /\ pc = "select" => completes = sent
         /\ pc = "complete" => completes + 1 = sent /\ ENABLED TakeComplete

(* A round that ended because the context-window parameter cannot be read *)
C36_Witness ==
    /\ provider = "openai"
    /\ ~numCtx.ok
    /\ pc = "complete"
    /\ sent = 1
    /\ reqs = 0

(* C39: on the OpenAI adapter a text response holding the marker <tool_call> *)
(* is never delivered on Recv, and the recovery from it is bounded whatever  *)
(* the backend answers: with a turn limit set, the forced request past the   *)
(* limit is made at most once in a round, its response ending the recovery.  *)
C39_MarkerRecoveryEnds ==
    provider = "openai" =>
        /\ \A i \in DOMAIN recvd : ~HasToolCallMarker(recvd[i])
        /\ pc = "recv" => ~HasToolCallMarker(outText)
        /\ maxTurns > 0 => forcedReqs <= 1

(* ------------------------------------------------------------------------ *)
(* Algebraic properties of fixQuotes                                         *)
(* ------------------------------------------------------------------------ *)

(* t holds a quote behind two backslashes *)
DoublyEscaped(t) ==
    \E i \in 1..Len(t) : i + 2 <= Len(t) /\ t[i] = BS /\ t[i + 1] = BS /\ t[i + 2] = Q

(* C38: fixQuotes is idempotent wherever it returns: applied to its own      *)
(* output it returns, and returns that output unchanged; a quote that        *)
(* already has a backslash before it is not escaped again.                   *)
C38_FixQuotesIdempotent ==
    (qres.state = "returned" /\ ~JsonDecodes(Candidate(qsrc))) =>
        /\ qres.fixed = fixQuotes(Candidate(qsrc)).out
        /\ ~fixQuotes(qres.fixed).panic
        /\ fixQuotes(qres.fixed).out = qres.fixed
        /\ ~DoublyEscaped(qres.fixed)
        /\ ~DoublyEscaped(fixQuotes(qres.fixed).out)

(* fixQuotes returned a text in which it escaped one quote and left another, *)
(* already escaped one, as it was                                            *)
C38_Witness ==
    /\ qres.state = "returned"
    /\ ~JsonDecodes(Candidate(qsrc))
    /\ qres.fixed # Candidate(qsrc)
    /\ \E i \in 2..Len(Candidate(qsrc)) :
          Candidate(qsrc)[i] = Q /\ Candidate(qsrc)[i - 1] = BS

(* ------------------------------------------------------------------------ *)
(* Properties of the per-call timeout                                        *)
(* ------------------------------------------------------------------------ *)

(* executeToolCall returned for call i because its timeout fired *)
TimedOut(i) == \E k \in DOMAIN etrs : etrs[k].call = i /\ etrs[k].why = "timeout"

(* C35: once a tool call has timed out, its tool message stays the empty     *)
(* result of the timeout, whatever the tool returns later: there is one      *)
(* tool message per handled call and none is added or changed afterwards;    *)
(* and a worker whose tool has returned can always hand its result to the    *)
(* result channel and end, also after the timeout.                           *)
C35_LateResultDiscarded ==
    /\ \A i \in DOMAIN eworker :
         /\ TimedOut(i) =>
              /\ Len(SelectSeq(etrs, LAMBDA tr : tr.call = i)) = 1
              /\ \A k \in DOMAIN etrs : etrs[k].call = i => etrs[k].content = ""
         /\ eworker[i] = "sending" => ENABLED WorkerHandsOver(i)
         /\ eworker[i] = "ended" => eresult[i] # "none"
    /\ \A k \in DOMAIN etrs : etrs[k].call = k

(* The first call timed out; its tool returned with success later, the     *)
(* worker handed the result over and ended, and the batch is over with the *)
(* empty tool message for that call                                        *)
C35_Witness ==
    /\ epc = "done"
    /\ TimedOut(1)
    /\ eworker[1] = "ended"
    /\ eresult[1] = "ok"
    /\ echan[1] = <<"ok">>
    /\ etrs[1].content = ""

(* ------------------------------------------------------------------------ *)
(* Properties of the caller protocol of the examples                         *)
(* ------------------------------------------------------------------------ *)

(* C40: with the caller of the examples on the Ollama or OpenAI adapter,    *)
(* once the receiver has taken the text answer of the round the main        *)
(* goroutine is never stuck before its exit: as long as it has not          *)
(* returned, some goroutine can take a step.                                *)
C40_MainReachesDone ==
    (kprov \in {"ollama", "openai"} /\ klog # <<>> /\ kmain # "exit")
        => ENABLED NextCaller

====
